---- MODULE Spec2Model ----
(***************************************************************************)
(* Structural inference and range resolution of the PDF extractorizer:     *)
(*   src/extractorizer/pdf_splitter.py     DocumentSplitter                *)
(*   src/extractorizer/toc_diagnostic.py   TOCAnalyzer                     *)
(*   src/extractorizer/content_analyzer.py ContentAnalyzer (page sampler,  *)
(*                                         line scoring, quality score)    *)
(*                                                                         *)
(* A title is a sequence of one-character strings, so that the keyword     *)
(* matching, word splitting and title-case test of the analyzer are        *)
(* computed on the characters as Python computes them.  Averages are kept  *)
(* as exact fractions (a sum and a count); the float arithmetic of the     *)
(* source agrees with them on every comparison made within the bounds.     *)
(***************************************************************************)
EXTENDS Integers, Sequences, FiniteSets, TLC

(***************************************************************************)
(* Bounds of the model.                                                    *)
(***************************************************************************)
MaxToc == 2

MaxPages == 3

MaxRuns == 2

MaxN == 24

MaxRatio == 12

MaxGateToc == 5

MaxSpans == 2

MaxFonts == 5

MaxSizeRange == 10

MaxHeadings == 5

MaxTitleWords == 3

MaxTypes == 6

MaxElements == 3

MaxLineSpans == 3

MaxHeadingLevels == 3

MaxLevelsToTry == 3

(***************************************************************************)
(* Python str primitives used by the analyzers.                            *)
(***************************************************************************)
UpperChars ==
  <<"A","B","C","D","E","F","G","H","I","J","K","L","M",
    "N","O","P","Q","R","S","T","U","V","W","X","Y","Z">>

LowerChars ==
  <<"a","b","c","d","e","f","g","h","i","j","k","l","m",
    "n","o","p","q","r","s","t","u","v","w","x","y","z">>

DigitChars == {"0","1","2","3","4","5","6","7","8","9"}

isupper(c) == \E k \in 1..26 : UpperChars[k] = c

islower(c) == \E k \in 1..26 : LowerChars[k] = c

isspace(c) == c = " "

\* str.lower(), one character
lower_char(c) ==
  IF isupper(c) THEN LowerChars[CHOOSE k \in 1..26 : UpperChars[k] = c] ELSE c

\* str.lower()
lower(s) == [k \in 1..Len(s) |-> lower_char(s[k])]

\* `sub in s` for str operands
contains(sub, s) ==
  \E k \in 0..(Len(s) - Len(sub)) : \A j \in 1..Len(sub) : s[k + j] = sub[j]

\* len(s.split()): the number of maximal runs of non-whitespace characters
word_count(s) ==
  Cardinality({k \in 1..Len(s) :
                 /\ ~isspace(s[k])
                 /\ (k = 1 \/ isspace(s[k - 1]))})

RECURSIVE istitle_from(_, _, _, _)
\* str.istitle(): the scan of CPython's unicode_istitle from position k
istitle_from(s, k, previous_is_cased, cased) ==
  IF k > Len(s) THEN cased
  ELSE IF isupper(s[k])
         THEN IF previous_is_cased THEN FALSE
              ELSE istitle_from(s, k + 1, TRUE, TRUE)
       ELSE IF islower(s[k])
         THEN IF ~previous_is_cased THEN FALSE
              ELSE istitle_from(s, k + 1, TRUE, TRUE)
       ELSE istitle_from(s, k + 1, FALSE, cased)

istitle(s) == istitle_from(s, 1, FALSE, FALSE)

\* re.search(r'\d', s) is not None
has_digit(s) == \E k \in 1..Len(s) : s[k] \in DigitChars

(***************************************************************************)
(* TOCAnalyzer.semantic_patterns                                           *)
(***************************************************************************)
chapter_indicators ==
  << <<"c","h","a","p","t","e","r">>,
     <<"p","a","r","t">>,
     <<"s","e","c","t","i","o","n">>,
     <<"b","o","o","k">>,
     <<"v","o","l","u","m","e">> >>

content_types ==
  << [category |-> "financial", words |->
        << <<"f","i","n","a","n","c","i","a","l">>,
           <<"r","e","v","e","n","u","e">>,
           <<"i","n","c","o","m","e">>,
           <<"e","a","r","n","i","n","g","s">>,
           <<"b","a","l","a","n","c","e">>,
           <<"c","a","s","h">>,
           <<"i","n","v","e","s","t","m","e","n","t">>,
           <<"p","e","r","f","o","r","m","a","n","c","e">> >>],
     [category |-> "legal", words |->
        << <<"l","e","g","a","l">>,
           <<"c","o","m","p","l","i","a","n","c","e">>,
           <<"r","e","g","u","l","a","t","i","o","n">>,
           <<"l","a","w">>,
           <<"p","o","l","i","c","y">>,
           <<"p","r","o","c","e","d","u","r","e">>,
           <<"r","i","s","k">>,
           <<"l","i","a","b","i","l","i","t","y">> >>],
     [category |-> "reference", words |->
        << <<"a","p","p","e","n","d","i","x">>,
           <<"i","n","d","e","x">>,
           <<"g","l","o","s","s","a","r","y">>,
           <<"r","e","f","e","r","e","n","c","e">>,
           <<"t","a","b","l","e">>,
           <<"l","i","s","t">>,
           <<"n","o","t","e","s">>,
           <<"e","x","h","i","b","i","t">> >>],
     [category |-> "governance", words |->
        << <<"b","o","a","r","d">>,
           <<"d","i","r","e","c","t","o","r">>,
           <<"m","a","n","a","g","e","m","e","n","t">>,
           <<"e","x","e","c","u","t","i","v","e">>,
           <<"g","o","v","e","r","n","a","n","c","e">>,
           <<"c","o","m","m","i","t","t","e","e">>,
           <<"a","u","d","i","t">> >>],
     [category |-> "operational", words |->
        << <<"b","u","s","i","n","e","s","s">>,
           <<"o","p","e","r","a","t","i","o","n","s">>,
           <<"s","e","g","m","e","n","t">>,
           <<"d","i","v","i","s","i","o","n">>,
           <<"s","u","b","s","i","d","i","a","r","y">>,
           <<"m","a","r","k","e","t">>,
           <<"c","u","s","t","o","m","e","r">> >>],
     [category |-> "technical", words |->
        << <<"s","y","s","t","e","m">>,
           <<"t","e","c","h","n","o","l","o","g","y">>,
           <<"p","r","o","c","e","s","s">>,
           <<"m","e","t","h","o","d">>,
           <<"i","m","p","l","e","m","e","n","t","a","t","i","o","n">>,
           <<"d","e","v","e","l","o","p","m","e","n","t">> >>],
     [category |-> "gaming", words |->
        << <<"c","l","a","s","s">>,
           <<"s","p","e","l","l">>,
           <<"m","o","n","s","t","e","r">>,
           <<"c","r","e","a","t","u","r","e">>,
           <<"i","t","e","m">>,
           <<"e","q","u","i","p","m","e","n","t">>,
           <<"c","h","a","r","a","c","t","e","r">>,
           <<"f","e","a","t">> >>],
     [category |-> "academic", words |->
        << <<"r","e","s","e","a","r","c","h">>,
           <<"s","t","u","d","y">>,
           <<"a","n","a","l","y","s","i","s">>,
           <<"m","e","t","h","o","d","o","l","o","g","y">>,
           <<"r","e","s","u","l","t","s">>,
           <<"c","o","n","c","l","u","s","i","o","n">>,
           <<"l","i","t","e","r","a","t","u","r","e">> >>],
     [category |-> "narrative", words |->
        << <<"s","t","o","r","y">>,
           <<"l","o","r","e">>,
           <<"b","a","c","k","g","r","o","u","n","d">>,
           <<"h","i","s","t","o","r","y">>,
           <<"s","e","t","t","i","n","g">>,
           <<"b","i","o","g","r","a","p","h","y">> >>] >>

structural_words ==
  << <<"o","v","e","r","v","i","e","w">>,
     <<"i","n","t","r","o","d","u","c","t","i","o","n">>,
     <<"s","u","m","m","a","r","y">>,
     <<"c","o","n","c","l","u","s","i","o","n">>,
     <<"d","e","s","c","r","i","p","t","i","o","n">> >>


article_words == << <<"t","h","e">>, <<"a">>, <<"a","n">> >>

RECURSIVE SumSeq(_)
SumSeq(s) ==
  IF s = <<>> THEN 0
  ELSE IF Len(s) = 1 THEN s[1]
  ELSE LET half == Len(s) \div 2
       IN  SumSeq(SubSeq(s, 1, half)) + SumSeq(SubSeq(s, half + 1, Len(s)))

Min2(a, b) == IF a <= b THEN a ELSE b

Max2(a, b) == IF a >= b THEN a ELSE b

\* the categories of content_types that have a keyword in the title
title_categories(title) ==
  {content_types[c].category : c \in
     {c \in 1..Len(content_types) :
        \E w \in 1..Len(content_types[c].words) :
           contains(content_types[c].words[w], lower(title))}}

\* faulty variant of calculate_semantic_score: every keyword of a category
\* that is found adds 7, not the category once
calculate_semantic_score_per_keyword(title) ==
  LET title_lower == lower(title)
      chapter == 10 * Cardinality({k \in 1..Len(chapter_indicators) :
                                     contains(chapter_indicators[k], title_lower)})
      content == 7 * Cardinality({<<c, w>> \in
                                    {<<c, w>> \in (1..Len(content_types)) \X (1..8) :
                                       w <= Len(content_types[c].words)} :
                                    contains(content_types[c].words[w], title_lower)})
      structural == 5 * Cardinality({k \in 1..Len(structural_words) :
                                       contains(structural_words[k], title_lower)})
      wc == word_count(title)
      length == IF 2 <= wc /\ wc <= 6 THEN 3 ELSE IF wc > 6 THEN 1 ELSE 0
      capital == IF istitle(title) THEN 2 ELSE 0
      numeric == IF has_digit(title) THEN 1 ELSE 0
  IN  chapter + content + structural + length + capital + numeric

\* TOCAnalyzer._calculate_semantic_score
calculate_semantic_score(title) ==
  LET title_lower == lower(title)
      chapter == 10 * Cardinality({k \in 1..Len(chapter_indicators) :
                                     contains(chapter_indicators[k], title_lower)})
      content == 7 * Cardinality(title_categories(title))
      structural == 5 * Cardinality({k \in 1..Len(structural_words) :
                                       contains(structural_words[k], title_lower)})
      wc == word_count(title)
      length == IF 2 <= wc /\ wc <= 6 THEN 3 ELSE IF wc > 6 THEN 1 ELSE 0
      capital == IF istitle(title) THEN 2 ELSE 0
      numeric == IF has_digit(title) THEN 1 ELSE 0
  IN  chapter + content + structural + length + capital + numeric

(***************************************************************************)
(* The documents of the model.  An outline entry as PyMuPDF's              *)
(* get_toc(simple=False) returns it: [level, title, page, dest], here with *)
(* its number of fields; an entry of fewer than three fields is malformed. *)
(* level_int and page_int say whether isinstance(entry[0], int) and        *)
(* isinstance(entry[2], int) hold; a field that is not an integer is None  *)
(* (level 0 and page 0 stand for it), so arithmetic and ordering on it     *)
(* raise TypeError.                                                        *)
(***************************************************************************)
\* the titles of the model's outlines, and the characters of each
Titles == {"Part I", "x"}

title_chars(t) ==
  CASE t = "Part I" -> <<"P","a","r","t"," ","I">>
    [] t = "x"      -> <<"x">>

Levels == {1, 2}

\* page numbers an outline can carry: 1-based pages, beyond the last page of
\* a shorter document, and PyMuPDF's -1 for an unresolved destination
Pages == {-1} \cup (1..MaxPages)

WellFormedEntries ==
  [len : {4}, level : Levels, title : Titles, page : Pages,
   level_int : {TRUE}, page_int : {TRUE}]

MalformedEntries ==
  {[len |-> 2, level |-> 1, title |-> "x", page |-> 0,
    level_int |-> TRUE, page_int |-> FALSE]}

Entries == WellFormedEntries \cup MalformedEntries

RECURSIVE SeqsUpTo(_, _)
SeqsUpTo(S, n) ==
  IF n = 0 THEN {<<>>}
  ELSE LET shorter == SeqsUpTo(S, n - 1)
       IN  shorter \cup {Append(s, e) : s \in {t \in shorter : Len(t) = n - 1}, e \in S}

Tocs == SeqsUpTo(Entries, MaxToc)

\* what the analyzer derives from a title, computed once per title
title_info ==
  [t \in Titles |->
     LET title == title_chars(t)
     IN  [title_length   |-> Len(title),
          word_count     |-> word_count(title),
          semantic_score |-> calculate_semantic_score(title),
          categories     |-> title_categories(title),
          has_number     |-> has_digit(title),
          has_article    |-> \E k \in 1..Len(article_words) :
                                contains(article_words[k], lower(title)),
          proper_case    |-> istitle(title)]]

(***************************************************************************)
(* State.                                                                  *)
(***************************************************************************)
VARIABLES
  toc,             \* self.toc of the splitter and of its analyzer
  page_count,      \* self.doc.page_count
  pc,              \* position of the run
  validation,      \* outcome of _validate_document_structure
  prompted,        \* whether validation asked "Continue anyway?"
  level_analysis,  \* TOCAnalyzer.level_analysis, in insertion order
  reports,         \* what the calls of analyze_structure returned, in order
  chapters,        \* result of get_chapters_at_level
  level,           \* the level split_document was called with
  i,               \* split_to_pdf: index of the chapter being materialized
  written,         \* split_to_pdf: the sub-documents saved
  skipped,         \* split_to_pdf: indexes of the chapters skipped
  answer,          \* what input("Continue anyway? (y/N)") returned, or "none"
  handles,         \* the fitz documents opened and not closed
  ca_page_count,   \* ContentAnalyzer: self.doc.page_count
  sample_ratio,    \* ContentAnalyzer: sample_ratio, in tenths
  pages_to_analyze,\* ContentAnalyzer: the sampled page indexes, in order
  line,            \* ContentAnalyzer: a line of text as _extract_text_elements
                   \* hands it to _analyze_text_element
  element,         \* what _analyze_text_element returned (<<>> before)
  font_analysis,   \* ContentAnalyzer: self.font_analysis
  structural_elements, \* ContentAnalyzer: self.structural_elements
  structure_quality,   \* what _assess_structure_quality returned (<<>> before)
  st_title,        \* TOCAnalyzer: the title handed to _calculate_semantic_score
  st_score,        \* what _calculate_semantic_score returned (<<>> before)
  analysis_dict,   \* TOCAnalyzer: the dict handed to _determine_optimal_levels
  optimal_levels,  \* what _determine_optimal_levels returned (<<>> before)
  text_elements,   \* ContentAnalyzer: text_elements of analyze_content_structure
  doc_font_sizes,  \* ContentAnalyzer: font_sizes of analyze_content_structure,
                   \* in hundredths of a point
  median_size,     \* self.font_analysis['median_size'] (<<>> if not set)
  heading_levels,  \* self.structural_elements['heading_levels'], in
                   \* insertion order
  avg_headings_per_page, \* self.structural_elements['avg_headings_per_page']
                   \* (<<>> before)
  raw_line,        \* ContentAnalyzer: line["spans"] of a line of a page
  font_usage,      \* ContentAnalyzer: font_usage of
                   \* analyze_content_structure, in insertion order
  displayed,       \* toc_extractor: the chapter ranges printed by
                   \* extract_and_display_toc
  display_level,   \* toc_extractor: chapter_level of the call (0 before)
  max_levels,      \* auto_find_optimal_level: max_levels_to_try
  levels_to_try,   \* auto_find_optimal_level: the levels to test, in order
  tested,          \* auto_find_optimal_level: the calls of
                   \* validate_structure made so far and what came of each
  results,         \* auto_find_optimal_level: results ("levels_tested")
  af_result        \* what auto_find_optimal_level returned (<<>> before)

vars ==
  <<toc, page_count, pc, validation, prompted, level_analysis, reports,
    chapters, level, i, written, skipped, answer, handles,
    ca_page_count, sample_ratio, pages_to_analyze,
    line, element, font_analysis, structural_elements, structure_quality,
    st_title, st_score, analysis_dict, optimal_levels,
    text_elements, doc_font_sizes, median_size, heading_levels,
    avg_headings_per_page, raw_line, font_usage, displayed, display_level,
    max_levels, levels_to_try, tested, results, af_result>>

splitter_vars ==
  <<toc, page_count, pc, validation, prompted, level_analysis, reports,
    chapters, level, i, written, skipped, answer, handles>>

\* the splitter's variables but the position of the run
splitter_data_vars ==
  <<toc, page_count, validation, prompted, level_analysis, reports,
    chapters, level, i, written, skipped, answer, handles>>

sampler_vars == <<ca_page_count, sample_ratio, pages_to_analyze>>

element_vars == <<line, element>>

quality_vars == <<font_analysis, structural_elements, structure_quality>>

semantic_vars == <<st_title, st_score>>

ranking_vars == <<analysis_dict, optimal_levels>>

structure_vars ==
  <<text_elements, doc_font_sizes, median_size, heading_levels,
    avg_headings_per_page>>

line_vars == <<raw_line, font_usage>>

display_vars == <<displayed, display_level>>

auto_find_vars == <<max_levels, levels_to_try, tested, results, af_result>>

\* the variables of the operations modelled on their own
extension_vars ==
  <<ranking_vars, structure_vars, line_vars, display_vars, auto_find_vars>>

content_vars == <<element_vars, quality_vars, semantic_vars, extension_vars>>

(***************************************************************************)
(* TOCAnalyzer (toc_diagnostic.py)                                         *)
(***************************************************************************)
\* self.level_analysis[level].append(item) on the defaultdict(list)
level_append(la, lvl, item) ==
  IF \E k \in 1..Len(la) : la[k].level = lvl
    THEN [k \in 1..Len(la) |->
            IF la[k].level = lvl
              THEN [la[k] EXCEPT !.entries = Append(@, item)]
              ELSE la[k]]
    ELSE Append(la, [level |-> lvl, entries |-> <<item>>])

RECURSIVE organize_entries(_, _, _)
\* the loop of analyze_structure over enumerate(self.toc), from index idx
organize_entries(la, t, idx) ==
  IF idx > Len(t) THEN la
  ELSE IF t[idx].len >= 3
    THEN organize_entries(
           level_append(la, t[idx].level,
             [index          |-> idx - 1,
              title          |-> t[idx].title,
              page           |-> t[idx].page,
              title_length   |-> title_info[t[idx].title].title_length,
              word_count     |-> title_info[t[idx].title].word_count,
              semantic_score |-> title_info[t[idx].title].semantic_score]),
           t, idx + 1)
    ELSE organize_entries(la, t, idx + 1)

\* faulty variant of page_ranges: the page the next entry starts on is
\* counted with the entry
page_ranges_inclusive(entries, pages) ==
  [k \in 1..Len(entries) |->
     IF k + 1 <= Len(entries)
       THEN entries[k + 1].page - entries[k].page + 1
       ELSE pages - entries[k].page + 1]

\* the page ranges computed by _analyze_level_characteristics
page_ranges(entries, pages) ==
  [k \in 1..Len(entries) |->
     IF k + 1 <= Len(entries)
       THEN entries[k + 1].page - entries[k].page
       ELSE pages - entries[k].page + 1]

\* TOCAnalyzer._analyze_level_characteristics; a mean is kept as its sum
\* over `count`
analyze_level_characteristics(lvl, entries, pages) ==
  LET n == Len(entries)
      cats == UNION {title_info[entries[k].title].categories : k \in 1..n}
  IN  [count            |-> n,
       title_length_sum |-> SumSeq([k \in 1..n |-> entries[k].title_length]),
       word_count_sum   |-> SumSeq([k \in 1..n |-> entries[k].word_count]),
       semantic_sum     |-> SumSeq([k \in 1..n |-> entries[k].semantic_score]),
       page_ranges      |-> page_ranges(entries, pages),
       content_types    |->
         [c \in cats |->
            Cardinality({k \in 1..n : c \in title_info[entries[k].title].categories})],
       has_numbers      |->
         Cardinality({k \in 1..n : title_info[entries[k].title].has_number}),
       has_articles     |->
         Cardinality({k \in 1..n : title_info[entries[k].title].has_article}),
       proper_case      |->
         Cardinality({k \in 1..n : title_info[entries[k].title].proper_case}),
       sample_titles    |-> [k \in 1..Min2(n, 5) |-> entries[k].title]]

\* faulty variant of level_score: a level of one or two entries loses 20
level_score_harsher_count(stats) ==
  LET count == stats.count
      range_sum == SumSeq(stats.page_ranges)
      count_band ==
        IF 3 <= count /\ count <= 50 THEN 20
        ELSE IF 51 <= count /\ count <= 100 THEN 15
        ELSE IF count <= 2 THEN -20
        ELSE IF count > 200 THEN -5
        ELSE 0
      page_band ==
        IF 5 * count <= range_sum /\ range_sum <= 100 * count THEN 20
        ELSE IF 101 * count <= range_sum /\ range_sum <= 200 * count THEN 15
        ELSE IF range_sum < 3 * count THEN -5
        ELSE 0
      diversity == Min2(Cardinality(DOMAIN stats.content_types) * 3, 15)
      consistency == IF stats.proper_case * 100 > 70 * count THEN 5 ELSE 0
  IN  [num |-> Min2(stats.semantic_sum * 2, 40 * count)
                 + count * (count_band + page_band + diversity + consistency),
       den |-> count]

\* faulty variant of level_score: a negative score is raised to 0
level_score_clamped(stats) ==
  LET count == stats.count
      range_sum == SumSeq(stats.page_ranges)
      count_band ==
        IF 3 <= count /\ count <= 50 THEN 20
        ELSE IF 51 <= count /\ count <= 100 THEN 15
        ELSE IF count <= 2 THEN -10
        ELSE IF count > 200 THEN -5
        ELSE 0
      page_band ==
        IF 5 * count <= range_sum /\ range_sum <= 100 * count THEN 20
        ELSE IF 101 * count <= range_sum /\ range_sum <= 200 * count THEN 15
        ELSE IF range_sum < 3 * count THEN -5
        ELSE 0
      diversity == Min2(Cardinality(DOMAIN stats.content_types) * 3, 15)
      consistency == IF stats.proper_case * 100 > 70 * count THEN 5 ELSE 0
  IN  [num |-> Max2(0, Min2(stats.semantic_sum * 2, 40 * count)
                 + count * (count_band + page_band + diversity + consistency)),
       den |-> count]

\* the score of one level in _determine_optimal_levels, as the fraction
\* num / den with den = count
level_score(stats) ==
  LET count == stats.count
      range_sum == SumSeq(stats.page_ranges)
      count_band ==
        IF 3 <= count /\ count <= 50 THEN 20
        ELSE IF 51 <= count /\ count <= 100 THEN 15
        ELSE IF count <= 2 THEN -10
        ELSE IF count > 200 THEN -5
        ELSE 0
      page_band ==
        IF 5 * count <= range_sum /\ range_sum <= 100 * count THEN 20
        ELSE IF 101 * count <= range_sum /\ range_sum <= 200 * count THEN 15
        ELSE IF range_sum < 3 * count THEN -5
        ELSE 0
      diversity == Min2(Cardinality(DOMAIN stats.content_types) * 3, 15)
      consistency == IF stats.proper_case * 100 > 70 * count THEN 5 ELSE 0
  IN  [num |-> Min2(stats.semantic_sum * 2, 40 * count)
                 + count * (count_band + page_band + diversity + consistency),
       den |-> count]

\* a < b for fractions with positive denominators
frac_less(a, b) == a.num * b.den < b.num * a.den

RECURSIVE sorted_by_score_desc(_)
\* sorted(level_scores.items(), key=lambda x: x[1], reverse=True): stable,
\* items of equal score keep their order
sorted_by_score_desc(items) ==
  IF items = <<>> THEN <<>>
  ELSE LET n == Len(items)
           x == items[n]
           rest == sorted_by_score_desc(SubSeq(items, 1, n - 1))
           p == Cardinality({k \in 1..Len(rest) : ~frac_less(rest[k].score, x.score)})
       IN  SubSeq(rest, 1, p) \o <<x>> \o SubSeq(rest, p + 1, Len(rest))

\* TOCAnalyzer._determine_optimal_levels: (ranked_levels, level_scores)
determine_optimal_levels(analysis) ==
  LET level_scores ==
        [k \in 1..Len(analysis) |->
           [level |-> analysis[k].level, score |-> level_score(analysis[k].stats)]]
  IN  [ranked_levels |-> sorted_by_score_desc(level_scores),
       level_scores |-> level_scores]

\* TOCAnalyzer._generate_analysis_report
generate_analysis_report(la, t, pages) ==
  LET analysis ==
        [k \in 1..Len(la) |->
           [level |-> la[k].level,
            stats |-> analyze_level_characteristics(la[k].level, la[k].entries, pages)]]
      optimal == determine_optimal_levels(analysis)
  IN  [level_analysis |-> analysis,
       level_scores   |-> optimal.level_scores,
       ranked_levels  |-> optimal.ranked_levels,
       total_entries  |-> Len(t),
       max_level      |-> IF la = <<>> THEN 0
                          ELSE CHOOSE m \in {la[k].level : k \in 1..Len(la)} :
                                 \A k \in 1..Len(la) : la[k].level <= m,
       document_pages |-> pages]

\* whether analyze_structure raises TypeError on the outline: a page that
\* is None meets "next_page - entry['page']" (or "page_count - ... + 1") in
\* _analyze_level_characteristics, and a level key that is None meets the
\* integer keys in max(self.level_analysis.keys())
analysis_raises(t) ==
  LET organized == {k \in 1..Len(t) : t[k].len >= 3}
  IN  \/ \E k \in organized : ~t[k].page_int
      \/ \E k, j \in organized : ~t[k].level_int /\ t[j].level_int

\* TOCAnalyzer.analyze_structure, given self.level_analysis as la: the new
\* self.level_analysis, whether the call raised, and the returned value
\* (<<>> for None, else <<report>>)
analyze_structure(la, t, pages) ==
  IF t = <<>>
    THEN [level_analysis |-> la, raised |-> FALSE, result |-> <<>>]
    ELSE LET la2 == organize_entries(la, t, 1)
         IN  IF analysis_raises(t)
               THEN [level_analysis |-> la2, raised |-> TRUE, result |-> <<>>]
               ELSE [level_analysis |-> la2, raised |-> FALSE,
                     result |-> <<generate_analysis_report(la2, t, pages)>>]

(***************************************************************************)
(* DocumentSplitter (pdf_splitter.py)                                      *)
(***************************************************************************)
\* faulty variant of insufficient_entries: a single entry is let through
insufficient_entries_below_one(t) == Len(t) < 1

\* Check 2 of _validate_document_structure: "if len(self.toc) < 2"
insufficient_entries(t) == Len(t) < 2

\* Check 3 of _validate_document_structure: the entries with
\* len(entry) >= 3 and isinstance(entry[0], int) and isinstance(entry[2], int)
valid_entries(t) ==
  Cardinality({k \in 1..Len(t) :
                 t[k].len >= 3 /\ t[k].level_int /\ t[k].page_int})

\* faulty variant of malformed_structure: exactly 80% is rejected as well
malformed_structure_at_most(t) == valid_entries(t) * 10 <= Len(t) * 8

\* Check 3: "if valid_entries < len(self.toc) * 0.8"
malformed_structure(t) == valid_entries(t) * 10 < Len(t) * 8

\* faulty variant of level_entries: the entries in reverse outline order
level_entries_reversed(t, lvl) ==
  LET keep == {k \in 1..Len(t) :
                 t[k].len >= 3 /\ t[k].level_int /\ t[k].level = lvl}
      nth(j) == CHOOSE k \in keep : Cardinality({m \in keep : m > k}) = j - 1
  IN  [j \in 1..Cardinality(keep) |->
         [title |-> t[nth(j)].title, page |-> t[nth(j)].page]]

\* level_entries of get_chapters_at_level: the (title, page) pairs of the
\* entries at the level, in outline order
level_entries(t, lvl) ==
  LET keep == {k \in 1..Len(t) :
                 t[k].len >= 3 /\ t[k].level_int /\ t[k].level = lvl}
      nth(j) == CHOOSE k \in keep : Cardinality({m \in keep : m < k}) = j - 1
  IN  [j \in 1..Cardinality(keep) |->
         [title |-> t[nth(j)].title, page |-> t[nth(j)].page]]

\* faulty variant of computed_end_page: a chapter runs up to and including
\* the page the next one starts on
computed_end_page_next_start(entries, k, pages) ==
  IF k + 1 <= Len(entries) THEN entries[k + 1].page ELSE pages

\* faulty variant of computed_end_page: the last page taken as 0-based
computed_end_page_zero_based(entries, k, pages) ==
  IF k + 1 <= Len(entries) THEN entries[k + 1].page - 1 ELSE pages - 1

\* the end page of chapter k before the same-page adjustment
computed_end_page(entries, k, pages) ==
  IF k + 1 <= Len(entries) THEN entries[k + 1].page - 1 ELSE pages

\* faulty variant of resolved_end_page: no same-page adjustment
resolved_end_page_unadjusted(start_page, end_page) == end_page

\* faulty variant of resolved_end_page: adjusts only a span below zero
resolved_end_page_negative_only(start_page, end_page) ==
  IF start_page > end_page + 1 THEN start_page ELSE end_page

\* the end page of chapter k: "if start_page > end_page: end_page = start_page"
resolved_end_page(start_page, end_page) ==
  IF start_page > end_page THEN start_page ELSE end_page

\* DocumentSplitter.get_chapters_at_level
get_chapters_at_level(t, lvl, pages) ==
  IF t = <<>> THEN <<>>
  ELSE LET entries == level_entries(t, lvl)
       IN  [k \in 1..Len(entries) |->
              LET start_page == entries[k].page
                  end_page == resolved_end_page(start_page,
                                computed_end_page(entries, k, pages))
              IN  [title      |-> entries[k].title,
                   start_page |-> start_page,
                   end_page   |-> end_page,
                   page_count |-> end_page - start_page + 1]]

\* split_to_pdf: the validated page range of a chapter
clamped_start(chapter) == Max2(1, chapter.start_page)

\* faulty variant of clamped_end: the end page is not clamped
clamped_end_unclamped(chapter, pages) == chapter.end_page

clamped_end(chapter, pages) == Min2(pages, chapter.end_page)

\* split_to_pdf: the 0-based pages inserted for range(start_page - 1, end_page)
inserted_pages(start_page, end_page, pages) ==
  {page_num \in (start_page - 1)..(end_page - 1) : page_num < pages}

\* DocumentSplitter.__init__ up to the prompt of _validate_document_structure:
\* fitz.open and TOCAnalyzer(pdf_path) each open the document, checks 1-3
\* raise ValueError, check 4 runs the analyzer once and turns whatever it
\* raises into ValueError; nothing closes the two documents when
\* __init__ raises
ValidateDocument ==
  /\ pc = "new"
  /\ handles' = handles \cup {"splitter.doc", "analyzer.doc"}
  /\ UNCHANGED <<toc, page_count, chapters, level, i, written, skipped, answer>>
  /\ UNCHANGED sampler_vars
  /\ UNCHANGED content_vars
  /\ IF toc = <<>>
       THEN /\ pc' = "rejected"
            /\ validation' = "no_toc"
            /\ UNCHANGED <<prompted, level_analysis, reports>>
     ELSE IF insufficient_entries(toc)
       THEN /\ pc' = "rejected"
            /\ validation' = "insufficient_entries"
            /\ UNCHANGED <<prompted, level_analysis, reports>>
     ELSE IF malformed_structure(toc)
       THEN /\ pc' = "rejected"
            /\ validation' = "malformed"
            /\ UNCHANGED <<prompted, level_analysis, reports>>
     ELSE LET run == analyze_structure(level_analysis, toc, page_count)
          IN  IF run.raised
                THEN /\ level_analysis' = run.level_analysis
                     /\ pc' = "rejected"
                     /\ validation' = "analysis_error"
                     /\ UNCHANGED <<prompted, reports>>
                ELSE LET ranked == run.result[1].ranked_levels
                         best_level_score ==
                           IF ranked # <<>> THEN ranked[1].score
                           ELSE [num |-> 0, den |-> 1]
                     IN  /\ level_analysis' = run.level_analysis
                         /\ reports' = Append(reports, run.result)
                         /\ IF frac_less(best_level_score, [num |-> 10, den |-> 1])
                              THEN /\ pc' = "prompt"
                                   /\ prompted' = TRUE
                                   /\ UNCHANGED validation
                              ELSE /\ pc' = "ready"
                                   /\ validation' = "passed"
                                   /\ UNCHANGED prompted

\* what input("Continue anyway? (y/N)").lower().strip() may return
Confirmations == {"y", "yes", "n", ""}

\* faulty variant of confirmed: the empty answer counts as consent
confirmed_by_default(confirm) == confirm \in {"y", "yes", ""}

\* "if confirm not in ['y', 'yes']: raise ValueError"
confirmed(confirm) == confirm \in {"y", "yes"}

\* the answer to "Continue anyway? (y/N)" and the rest of the validation:
\* anything but 'y' or 'yes' raises ValueError
AnswerPrompt ==
  /\ pc = "prompt"
  /\ \E confirm \in Confirmations :
       /\ answer' = confirm
       /\ IF confirmed(confirm)
            THEN pc' = "ready" /\ validation' = "passed"
            ELSE pc' = "rejected" /\ validation' = "cancelled"
  /\ UNCHANGED <<toc, page_count, prompted, level_analysis, reports,
                 chapters, level, i, written, skipped, handles>>
  /\ UNCHANGED sampler_vars
  /\ UNCHANGED content_vars

\* DocumentSplitter.split_document up to the call of split_to_pdf
SplitDocument ==
  /\ pc = "ready"
  /\ \E lvl \in Levels :
       /\ level' = lvl
       /\ chapters' = get_chapters_at_level(toc, lvl, page_count)
       /\ pc' = IF get_chapters_at_level(toc, lvl, page_count) = <<>>
                  THEN "returned" ELSE "split_to_pdf"
  /\ i' = 1
  /\ UNCHANGED <<toc, page_count, validation, prompted, level_analysis, reports,
                 written, skipped, answer, handles>>
  /\ UNCHANGED sampler_vars
  /\ UNCHANGED content_vars

\* one iteration of the loop of DocumentSplitter.split_to_pdf
SplitToPdfStep ==
  /\ pc = "split_to_pdf"
  /\ i <= Len(chapters)
  /\ LET start_page == clamped_start(chapters[i])
         end_page == clamped_end(chapters[i], page_count)
         added == inserted_pages(start_page, end_page, page_count)
     IN  IF start_page > end_page
           THEN /\ skipped' = skipped \cup {i}
                /\ UNCHANGED written
           ELSE /\ written' =
                     IF Cardinality(added) > 0
                       THEN Append(written,
                              [chapter     |-> i,
                               start_page  |-> start_page,
                               end_page    |-> end_page,
                               pages       |-> added,
                               pages_added |-> Cardinality(added)])
                       ELSE written
                /\ UNCHANGED skipped
  /\ i' = i + 1
  /\ UNCHANGED <<toc, page_count, pc, validation, prompted, level_analysis,
                 reports, chapters, level, answer, handles>>
  /\ UNCHANGED sampler_vars
  /\ UNCHANGED content_vars

\* split_to_pdf returns after the last chapter, and split_document with it
SplitToPdfReturn ==
  /\ pc = "split_to_pdf"
  /\ i > Len(chapters)
  /\ pc' = "returned"
  /\ UNCHANGED <<toc, page_count, validation, prompted, level_analysis, reports,
                 chapters, level, i, written, skipped, answer, handles>>
  /\ UNCHANGED sampler_vars
  /\ UNCHANGED content_vars

\* DocumentSplitter.close, which main calls once split_document has returned
Close ==
  /\ pc = "returned"
  /\ handles' = handles \ {"splitter.doc", "analyzer.doc"}
  /\ pc' = "closed"
  /\ UNCHANGED <<toc, page_count, validation, prompted, level_analysis, reports,
                 chapters, level, i, written, skipped, answer>>
  /\ UNCHANGED sampler_vars
  /\ UNCHANGED content_vars

\* a further call of analyze_structure on the same TOCAnalyzer (the method
\* is public: print_diagnostic_report calls it, and so may any caller)
AnalyzeStructure ==
  /\ pc = "analyzer"
  /\ Len(reports) < MaxRuns
  /\ LET run == analyze_structure(level_analysis, toc, page_count)
     IN  /\ level_analysis' = run.level_analysis
         /\ reports' = IF run.raised THEN reports ELSE Append(reports, run.result)
  /\ UNCHANGED <<toc, page_count, pc, validation, prompted,
                 chapters, level, i, written, skipped, answer, handles>>
  /\ UNCHANGED sampler_vars
  /\ UNCHANGED content_vars

(***************************************************************************)
(* ContentAnalyzer.analyze_content_structure: the page sampler             *)
(***************************************************************************)
\* int(x) for the quotient num / den, den > 0: truncation toward zero
int_div(num, den) == IF num >= 0 THEN num \div den ELSE -((-num) \div den)

\* round(num / den) of Python 3 for num >= 0, den > 0: half to even
round_half_even(num, den) ==
  LET q == num \div den
      r == num % den
  IN  IF 2 * r < den THEN q
      ELSE IF 2 * r > den THEN q + 1
      ELSE IF q % 2 = 0 THEN q ELSE q + 1

\* faulty variant of sample_count: round() in place of int()
sample_count_rounded(n, ratio) == Max2(10, round_half_even(n * ratio, 10))

\* sample_count = max(10, int(page_count * sample_ratio)), ratio in tenths
sample_count(n, ratio) == Max2(10, int_div(n * ratio, 10))

\* step = max(1, page_count // sample_count)
sample_step(n, ratio) == Max2(1, n \div sample_count(n, ratio))

\* faulty variant of range_step: the stop value is included
range_step_inclusive(n, step) ==
  [k \in 1..((n \div step) + 1) |-> (k - 1) * step]

\* list(range(0, n, step))
range_step(n, step) ==
  [k \in 1..((n + step - 1) \div step) |-> (k - 1) * step]

\* pages_to_analyze of analyze_content_structure
sampled_pages(n, ratio) ==
  IF n <= 10 THEN [k \in 1..n |-> k - 1]
  ELSE range_step(n, sample_step(n, ratio))

SamplePages ==
  /\ pc = "sampler"
  /\ pages_to_analyze' = sampled_pages(ca_page_count, sample_ratio)
  /\ pc' = "sampled"
  /\ UNCHANGED <<ca_page_count, sample_ratio>>
  /\ UNCHANGED <<toc, page_count, validation, prompted, level_analysis, reports,
                 chapters, level, i, written, skipped, answer, handles>>
  /\ UNCHANGED content_vars

(***************************************************************************)
(* ContentAnalyzer._analyze_text_element: the indicators and the           *)
(* structure_score of one line of text                                     *)
(***************************************************************************)
\* the lines of text of the model's pages, and the characters of each
LineTexts ==
  {"FIREBALL", "Magic Missile", "1. Spells", "12 spells", "1.5 spells",
   "Components:", "the wizard casts it.", "THE BOOK OF MANY SPELLS",
   "a b c d e f g h i.", "a b c d e f g h i j k l m n o p.",
   "a b c d e f g h i j k l m n o p", "A B C D E F G H I", "x"}

line_chars(t) ==
  CASE t = "FIREBALL" -> <<"F","I","R","E","B","A","L","L">>
    [] t = "Magic Missile" -> <<"M","a","g","i","c"," ","M","i","s","s","i",
           "l","e">>
    [] t = "1. Spells" -> <<"1","."," ","S","p","e","l","l","s">>
    [] t = "12 spells" -> <<"1","2"," ","s","p","e","l","l","s">>
    [] t = "1.5 spells" -> <<"1",".","5"," ","s","p","e","l","l","s">>
    [] t = "Components:" -> <<"C","o","m","p","o","n","e","n","t","s",":">>
    [] t = "the wizard casts it." -> <<"t","h","e"," ","w","i","z","a","r",
           "d"," ","c","a","s","t","s"," ","i","t",".">>
    [] t = "THE BOOK OF MANY SPELLS" -> <<"T","H","E"," ","B","O","O","K",
           " ","O","F"," ","M","A","N","Y"," ","S","P","E","L","L","S">>
    [] t = "a b c d e f g h i." -> <<"a"," ","b"," ","c"," ","d"," ","e",
           " ","f"," ","g"," ","h"," ","i",".">>
    [] t = "a b c d e f g h i j k l m n o p." -> <<"a"," ","b"," ","c"," ",
           "d"," ","e"," ","f"," ","g"," ","h"," ","i"," ","j"," ","k"," ",
           "l"," ","m"," ","n"," ","o"," ","p",".">>
    [] t = "a b c d e f g h i j k l m n o p" -> <<"a"," ","b"," ","c"," ",
           "d"," ","e"," ","f"," ","g"," ","h"," ","i"," ","j"," ","k"," ",
           "l"," ","m"," ","n"," ","o"," ","p">>
    [] t = "A B C D E F G H I" -> <<"A"," ","B"," ","C"," ","D"," ","E"," ",
           "F"," ","G"," ","H"," ","I">>
    [] t = "x" -> <<"x">>

\* the fonts of the model's spans, and the characters of each name
FontNames ==
  {"Helvetica", "Helvetica-Bold", "ARIAL-BOLD"}

font_chars(f) ==
  CASE f = "Helvetica" -> <<"H","e","l","v","e","t","i","c","a">>
    [] f = "Helvetica-Bold" -> <<"H","e","l","v","e","t","i","c","a","-",
           "B","o","l","d">>
    [] f = "ARIAL-BOLD" -> <<"A","R","I","A","L","-","B","O","L","D">>

\* the sizes of the model's spans, in points
FontSizes == {10, 12, 13, 16, 18}

\* a span of a line as _extract_text_elements reads it: span["font"] and
\* span["size"]; a line that reaches _analyze_text_element has a span or more
Spans == [font : FontNames, size : FontSizes]

Lines ==
  [text : LineTexts, spans : SeqsUpTo(Spans, MaxSpans) \ {<<>>}, page : {0}]

\* str.isupper(): a cased character or more, and none of them lowercase
str_isupper(s) ==
  /\ \E k \in 1..Len(s) : isupper(s[k])
  /\ ~\E k \in 1..Len(s) : islower(s[k])

\* s.endswith(c) for a single character c
endswith(s, c) == Len(s) > 0 /\ s[Len(s)] = c

\* bool(re.match(r'^\d+\.?\s', s))
is_numbered(s) ==
  \E n \in 1..Len(s) :
     /\ \A k \in 1..n : s[k] \in DigitChars
     /\ \/ n + 1 <= Len(s) /\ isspace(s[n + 1])
        \/ n + 2 <= Len(s) /\ s[n + 1] = "." /\ isspace(s[n + 2])

\* statistics.mean(font_sizes), as the exact fraction sum / count
mean(xs) == [num |-> SumSeq(xs), den |-> Len(xs)]

\* font_names.count(f)
count_of(xs, x) == Cardinality({k \in 1..Len(xs) : xs[k] = x})

\* max(set(font_names), key=font_names.count): the names that occur most
\* often; among several of them max() returns the one the iteration of the
\* set meets first, an order that changes with the hash seed of the process
primary_fonts(font_names) ==
  {f \in {font_names[k] : k \in 1..Len(font_names)} :
     \A k \in 1..Len(font_names) :
        count_of(font_names, font_names[k]) <= count_of(font_names, f)}

\* faulty variant of font_is_bold: only the spelling 'Bold' counts
font_is_bold_case_sensitive(primary_font) ==
  contains(<<"B","o","l","d">>, font_chars(primary_font))

\* 'Bold' in primary_font or 'bold' in primary_font.lower()
font_is_bold(primary_font) ==
  \/ contains(<<"B","o","l","d">>, font_chars(primary_font))
  \/ contains(<<"b","o","l","d">>, lower(font_chars(primary_font)))

\* the dict "indicators" of _analyze_text_element
text_indicators(text, avg_font_size, primary_font) ==
  [is_short        |-> word_count(text) <= 8,
   is_numbered     |-> is_numbered(text),
   is_uppercase    |-> str_isupper(text),
   is_title_case   |-> istitle(text),
   has_colon       |-> endswith(text, ":"),
   is_bold         |-> font_is_bold(primary_font),
   large_font      |-> avg_font_size.num > 12 * avg_font_size.den,
   very_large_font |-> avg_font_size.num > 16 * avg_font_size.den,
   starts_sentence |-> Len(text) > 0 /\ isupper(text[1]),
   ends_period     |-> endswith(text, "."),
   standalone_line |-> word_count(text) <= 3]

\* faulty variant of structure_score: large_font counts only when
\* very_large_font does not
structure_score_exclusive_fonts(indicators, words) ==
    (IF indicators.very_large_font THEN 10
     ELSE IF indicators.large_font THEN 6 ELSE 0)
  + (IF indicators.is_bold THEN 8 ELSE 0)
  + (IF indicators.is_numbered THEN 7 ELSE 0)
  + (IF indicators.is_uppercase /\ indicators.is_short THEN 9 ELSE 0)
  + (IF indicators.is_title_case /\ indicators.is_short THEN 5 ELSE 0)
  + (IF indicators.has_colon THEN 4 ELSE 0)
  + (IF indicators.standalone_line THEN 3 ELSE 0)
  - (IF indicators.ends_period /\ ~indicators.is_short THEN 3 ELSE 0)
  - (IF words > 15 THEN 2 ELSE 0)

\* the structure score of _analyze_text_element, words being len(text.split())
structure_score(indicators, words) ==
    (IF indicators.very_large_font THEN 10 ELSE 0)
  + (IF indicators.is_bold THEN 8 ELSE 0)
  + (IF indicators.large_font THEN 6 ELSE 0)
  + (IF indicators.is_numbered THEN 7 ELSE 0)
  + (IF indicators.is_uppercase /\ indicators.is_short THEN 9 ELSE 0)
  + (IF indicators.is_title_case /\ indicators.is_short THEN 5 ELSE 0)
  + (IF indicators.has_colon THEN 4 ELSE 0)
  + (IF indicators.standalone_line THEN 3 ELSE 0)
  - (IF indicators.ends_period /\ ~indicators.is_short THEN 3 ELSE 0)
  - (IF words > 15 THEN 2 ELSE 0)

\* _analyze_text_element(text, font_sizes, font_names, page_num, bbox), with
\* the name max() returned as primary_font: <<>> for None, else <<element>>
analyze_text_element(text, font_sizes, font_names, primary_font, page_num) ==
  IF text = <<>> \/ font_sizes = <<>> THEN <<>>
  ELSE LET avg_font_size == mean(font_sizes)
           indicators == text_indicators(text, avg_font_size, primary_font)
       IN  <<[text            |-> text,
              page            |-> page_num,
              font_size       |-> avg_font_size,
              font_name       |-> primary_font,
              structure_score |-> structure_score(indicators, word_count(text)),
              indicators      |-> indicators]>>

\* the call of _analyze_text_element on a line of _extract_text_elements
AnalyzeTextElement ==
  /\ pc = "line"
  /\ LET font_sizes == [k \in 1..Len(line.spans) |-> line.spans[k].size]
         font_names == [k \in 1..Len(line.spans) |-> line.spans[k].font]
     IN  \E primary_font \in primary_fonts(font_names) :
            element' = analyze_text_element(line_chars(line.text), font_sizes,
                                            font_names, primary_font, line.page)
  /\ pc' = "analyzed"
  /\ UNCHANGED line
  /\ UNCHANGED splitter_data_vars
  /\ UNCHANGED sampler_vars
  /\ UNCHANGED quality_vars
  /\ UNCHANGED semantic_vars
  /\ UNCHANGED extension_vars

(***************************************************************************)
(* ContentAnalyzer._assess_structure_quality                               *)
(***************************************************************************)
\* the structure scores of the model's headings: all above 3, the threshold
\* of _identify_structural_elements, and on either side of 10
HeadingScores == {5, 10, 11}

\* the numbers of sampled pages that carry text
TextPages == {1, 2, 10, 40}

\* all_headings of _identify_structural_elements, sorted by structure_score
\* in descending order: the structure scores of up to n headings
SortedScores(n) ==
  {scores \in SeqsUpTo(HeadingScores, n) :
     \A k \in 1..(Len(scores) - 1) : scores[k] >= scores[k + 1]}

\* self.font_analysis as _analyze_font_patterns leaves it, the fields that
\* _assess_structure_quality reads; without spans it stays {}, and get()
\* supplies 0 and (0, 0); the smallest span of the model's documents is of
\* 10 points
FontAnalyses ==
  [total_fonts : 1..MaxFonts,
   size_range  : {[min |-> 10, max |-> 10 + r] : r \in 0..MaxSizeRange}]

EmptyFontAnalysis ==
  [total_fonts |-> 0, size_range |-> [min |-> 0, max |-> 0]]

\* self.structural_elements as _identify_structural_elements leaves it for
\* headings of the given scores on text_pages pages with text: 'potential_
\* headings' is all_headings[:50], 'avg_headings_per_page' the quotient
\* len(all_headings) / len(set(e['page'] for e in text_elements)), kept as
\* an exact fraction
structural_elements_of(scores, text_pages) ==
  [potential_headings    |-> SubSeq(scores, 1, Min2(50, Len(scores))),
   avg_headings_per_page |->
     IF text_pages = 0 THEN [num |-> 0, den |-> 1]
     ELSE [num |-> Len(scores), den |-> text_pages]]

\* faulty variant of quality_assessment: the bands exclude their lower ends
quality_assessment_exclusive(score) ==
  IF score > 60 THEN "Excellent"
  ELSE IF score > 40 THEN "Good"
  ELSE IF score > 20 THEN "Fair"
  ELSE "Poor"

\* _quality_assessment
quality_assessment(score) ==
  IF score >= 60 THEN "Excellent"
  ELSE IF score >= 40 THEN "Good"
  ELSE IF score >= 20 THEN "Fair"
  ELSE "Poor"

\* _assess_structure_quality, on self.font_analysis and
\* self.structural_elements
assess_structure_quality(fa, se) ==
  LET font_range == fa.size_range.max - fa.size_range.min
      avg_headings == se.avg_headings_per_page
      high_score_count ==
        Cardinality({k \in 1..Len(se.potential_headings) :
                       se.potential_headings[k] > 10})
      quality_score ==
          (IF fa.total_fonts > 3 THEN 20 ELSE 0)
        + (IF font_range > 8 THEN 25 ELSE 0)
        + (IF /\ avg_headings.den <= 2 * avg_headings.num
              /\ avg_headings.num <= 3 * avg_headings.den
             THEN 20 ELSE 0)
        + (IF se.potential_headings # <<>> /\ high_score_count > 3
             THEN 15 ELSE 0)
  IN  [score |-> quality_score, assessment |-> quality_assessment(quality_score)]

\* _generate_content_report: the call of _assess_structure_quality
AssessStructureQuality ==
  /\ pc = "patterns"
  /\ structure_quality' = <<assess_structure_quality(font_analysis, structural_elements)>>
  /\ pc' = "assessed"
  /\ UNCHANGED <<font_analysis, structural_elements>>
  /\ UNCHANGED splitter_data_vars
  /\ UNCHANGED sampler_vars
  /\ UNCHANGED element_vars
  /\ UNCHANGED semantic_vars
  /\ UNCHANGED extension_vars

(***************************************************************************)
(* TOCAnalyzer._calculate_semantic_score on its own                        *)
(***************************************************************************)
\* the words and phrases the titles to score are made of, and their
\* characters
TitleWords ==
  {"Chapter", "department", "Spells", "Monster", "Conclusion", "2", "of",
   "one two three four five six seven"}

word_chars(w) ==
  CASE w = "Chapter" -> <<"C","h","a","p","t","e","r">>
    [] w = "department" -> <<"d","e","p","a","r","t","m","e","n","t">>
    [] w = "Spells" -> <<"S","p","e","l","l","s">>
    [] w = "Monster" -> <<"M","o","n","s","t","e","r">>
    [] w = "Conclusion" -> <<"C","o","n","c","l","u","s","i","o","n">>
    [] w = "2" -> <<"2">>
    [] w = "of" -> <<"o","f">>
    [] w = "one two three four five six seven" -> <<"o","n","e"," ","t","w",
           "o"," ","t","h","r","e","e"," ","f","o","u","r"," ","f","i","v",
           "e"," ","s","i","x"," ","s","e","v","e","n">>

RECURSIVE joined(_)
\* the title whose words, separated by single spaces, are ws
joined(ws) ==
  IF ws = <<>> THEN <<>>
  ELSE IF Len(ws) = 1 THEN word_chars(ws[1])
  ELSE word_chars(ws[1]) \o <<" ">> \o joined(Tail(ws))

\* the call of _calculate_semantic_score on the title of an outline entry
CalculateSemanticScore ==
  /\ pc = "title"
  /\ st_score' = <<calculate_semantic_score(joined(st_title))>>
  /\ pc' = "scored"
  /\ UNCHANGED st_title
  /\ UNCHANGED splitter_data_vars
  /\ UNCHANGED sampler_vars
  /\ UNCHANGED element_vars
  /\ UNCHANGED quality_vars
  /\ UNCHANGED extension_vars

(***************************************************************************)
(* TOCAnalyzer._determine_optimal_levels on its own                        *)
(***************************************************************************)
\* the numbers of entries of the levels to rank, around the ends of the
\* count bands: the small ones are combined with every sample of the other
\* statistics, the large ones with the extreme samples
SmallCounts == {1, 2, 3, 10}

LargeCounts == {50, 51, 100, 101, 200, 201}

\* the page spans of the entries of a level, around the ends of the span
\* bands; an entry whose successor starts on an earlier page has a
\* negative span
SpanSamples == {-1, 2, 3, 4, 5, 100, 101, 200, 201}

\* the average semantic scores of the levels, around the cap of 40 points
SemanticSamples == {0, 15, 20, 21, 40}

\* the categories of content_types, in the order of the dict
category_names == [c \in 1..Len(content_types) |-> content_types[c].category]

\* the numbers of title-case titles among count titles, around 70%
ProperCaseSamples(count) ==
  {0, (7 * count) \div 10, Min2((7 * count) \div 10 + 1, count), count}

\* the statistics of one level as _analyze_level_characteristics returns
\* them, the fields that _determine_optimal_levels reads: every entry but
\* the first spans "span" pages, the first one "first_span"
level_stats(count, avg_semantic, span, first_span, types, proper_case) ==
  [count         |-> count,
   semantic_sum  |-> avg_semantic * count,
   page_ranges   |-> [k \in 1..count |-> IF k = 1 THEN first_span ELSE span],
   content_types |-> [c \in {category_names[k] : k \in 1..types} |-> 1],
   proper_case   |-> proper_case]

\* the analysis dicts of one level handed to _determine_optimal_levels
Analyses ==
  UNION {{<<[level |-> 1,
             stats |-> level_stats(count, avg_semantic, span, span + uneven,
                                   types, proper_case)]>> :
            avg_semantic \in SemanticSamples, span \in SpanSamples,
            uneven \in {0, 1}, types \in 0..MaxTypes,
            proper_case \in ProperCaseSamples(count)} :
         count \in SmallCounts}
  \cup
  UNION {{<<[level |-> 1,
             stats |-> level_stats(count, avg_semantic, span, span,
                                   types, proper_case)]>> :
            avg_semantic \in {0, 40}, span \in {2, 5},
            types \in {0, MaxTypes}, proper_case \in {0, count}} :
         count \in LargeCounts}

\* _generate_analysis_report: the call of _determine_optimal_levels
DetermineOptimalLevels ==
  /\ pc = "analysis"
  /\ optimal_levels' = <<determine_optimal_levels(analysis_dict)>>
  /\ pc' = "ranked"
  /\ UNCHANGED analysis_dict
  /\ UNCHANGED splitter_data_vars
  /\ UNCHANGED sampler_vars
  /\ UNCHANGED element_vars
  /\ UNCHANGED quality_vars
  /\ UNCHANGED semantic_vars
  /\ UNCHANGED structure_vars
  /\ UNCHANGED line_vars
  /\ UNCHANGED display_vars
  /\ UNCHANGED auto_find_vars

(***************************************************************************)
(* ContentAnalyzer._analyze_font_patterns and                              *)
(* ContentAnalyzer._identify_structural_elements                           *)
(***************************************************************************)
\* the texts of the lines of the model's documents: "x" scores 3 and
\* "Magic Missile" 8 before the points for the font size
StructureTexts == {"x", "Magic Missile"}

\* the sizes of the spans of a line, in hundredths of a point: below and
\* above 12 points within the same tenth, 4 and 8 points above the smallest
\* size, and a line of two spans
StructureSizes ==
  {<<1000>>, <<1196>>, <<1204>>, <<1400>>, <<1800>>, <<1000, 1800>>}

\* _analyze_text_element on a line whose spans have the given sizes in
\* hundredths of a point: font_size is their mean, in points
text_element_of(text, sizes, font_name, page_num) ==
  LET avg_font_size == [num |-> SumSeq(sizes), den |-> 100 * Len(sizes)]
      indicators == text_indicators(text, avg_font_size, font_name)
  IN  [text            |-> text,
       page            |-> page_num,
       font_size       |-> avg_font_size,
       font_name       |-> font_name,
       structure_score |-> structure_score(indicators, word_count(text)),
       indicators      |-> indicators]

\* the sampled pages that carry text: the first two pages of the document,
\* the pages after them are blank
TextPageNumbers == {0, 1}

\* the lines of the sampled pages that carry text: the text element of each
\* and the sizes of its spans
StructureLines ==
  {[element |-> text_element_of(line_chars(t), sizes, "Helvetica", page_num),
    sizes   |-> sizes] :
     t \in StructureTexts, sizes \in StructureSizes,
     page_num \in TextPageNumbers}

\* the lines of a document in the order of the loop over the sampled pages
StructureDocuments ==
  {ls \in SeqsUpTo(StructureLines, MaxElements) :
     \A k \in 1..(Len(ls) - 1) : ls[k].element.page <= ls[k + 1].element.page}

RECURSIVE flattened(_)
\* font_sizes: the sizes of the spans of all lines, in order
flattened(ls) ==
  IF ls = <<>> THEN <<>> ELSE ls[1].sizes \o flattened(Tail(ls))

RECURSIVE sorted_asc(_)
\* sorted(data)
sorted_asc(xs) ==
  IF xs = <<>> THEN <<>>
  ELSE LET n == Len(xs)
           x == xs[n]
           rest == sorted_asc(SubSeq(xs, 1, n - 1))
           p == Cardinality({k \in 1..Len(rest) : rest[k] <= x})
       IN  SubSeq(rest, 1, p) \o <<x>> \o SubSeq(rest, p + 1, Len(rest))

\* statistics.median(font_sizes) of sizes in hundredths of a point, in points
median(xs) ==
  LET n == Len(xs)
      data == sorted_asc(xs)
  IN  IF n % 2 = 1 THEN [num |-> data[(n + 1) \div 2], den |-> 100]
      ELSE [num |-> data[n \div 2] + data[n \div 2 + 1], den |-> 200]

\* round(elem['font_size'], 1), in tenths of a point; no size of the model's
\* documents lies halfway between two tenths
round1(size) == (20 * size.num + size.den) \div (2 * size.den)

RECURSIVE sorted_by_structure_score(_)
\* sort(key=lambda x: x['structure_score'], reverse=True): stable
sorted_by_structure_score(es) ==
  IF es = <<>> THEN <<>>
  ELSE LET n == Len(es)
           x == es[n]
           rest == sorted_by_structure_score(SubSeq(es, 1, n - 1))
           p == Cardinality({k \in 1..Len(rest) :
                               rest[k].structure_score >= x.structure_score})
       IN  SubSeq(rest, 1, p) \o <<x>> \o SubSeq(rest, p + 1, Len(rest))

\* (a['page'], a['structure_score']) < (b['page'], b['structure_score'])
page_score_less(a, b) ==
  \/ a.page < b.page
  \/ a.page = b.page /\ a.structure_score < b.structure_score

RECURSIVE sorted_by_page_score(_)
\* sorted(headings_at_size, key=lambda x: (x['page'], x['structure_score']),
\* reverse=True): stable
sorted_by_page_score(es) ==
  IF es = <<>> THEN <<>>
  ELSE LET n == Len(es)
           x == es[n]
           rest == sorted_by_page_score(SubSeq(es, 1, n - 1))
           p == Cardinality({k \in 1..Len(rest) : ~page_score_less(rest[k], x)})
       IN  SubSeq(rest, 1, p) \o <<x>> \o SubSeq(rest, p + 1, Len(rest))

\* faulty variant of retained: a size 4 points above the median is enough
retained_from_four_points(count, size, median_fraction) ==
  \/ count >= 2
  \/ size * median_fraction.den >= 10 * (median_fraction.num + 4 * median_fraction.den)

\* len(headings_at_size) >= 2 or size > median_size + 4, for a size in
\* tenths of a point
retained(count, size, median_fraction) ==
  \/ count >= 2
  \/ size * median_fraction.den > 10 * (median_fraction.num + 4 * median_fraction.den)

\* all_headings of _identify_structural_elements
all_headings_of(elements) ==
  sorted_by_structure_score(SelectSeq(elements, LAMBDA e : e.structure_score > 3))

\* heading_levels of _identify_structural_elements: the retained levels in
\* the order of their insertion, each with its key; fa_median is
\* self.font_analysis.get('median_size', 10)
heading_levels_of(elements, fa_median) ==
  LET all_headings == all_headings_of(elements)
      sizes == {round1(all_headings[k].font_size) : k \in 1..Len(all_headings)}
      sorted_sizes ==
        [l \in 1..Cardinality(sizes) |->
           CHOOSE size \in sizes : Cardinality({t \in sizes : t > size}) = l - 1]
      group(l) ==
        LET headings_at_size ==
              SelectSeq(all_headings,
                        LAMBDA e : round1(e.font_size) = sorted_sizes[l])
        IN  [level     |-> l,
             font_size |-> sorted_sizes[l],
             count     |-> Len(headings_at_size),
             headings  |-> sorted_by_page_score(headings_at_size),
             avg_score |->
               [num |-> SumSeq([k \in 1..Len(headings_at_size) |->
                                  headings_at_size[k].structure_score]),
                den |-> Len(headings_at_size)]]
  IN  SelectSeq([l \in 1..Cardinality(sizes) |-> group(l)],
                LAMBDA g : retained(g.count, g.font_size, fa_median))

\* 'avg_headings_per_page' of _identify_structural_elements
avg_headings_per_page_of(elements) ==
  IF elements = <<>> THEN [num |-> 0, den |-> 1]
  ELSE [num |-> Len(all_headings_of(elements)),
        den |-> Cardinality({elements[k].page : k \in 1..Len(elements)})]

\* analyze_content_structure: the calls of _analyze_font_patterns and
\* _identify_structural_elements after the loop over the sampled pages
AnalyzePatterns ==
  /\ pc = "elements"
  /\ median_size' = IF doc_font_sizes = <<>> THEN <<>> ELSE <<median(doc_font_sizes)>>
  /\ heading_levels' =
       heading_levels_of(text_elements,
                         IF doc_font_sizes = <<>> THEN [num |-> 10, den |-> 1]
                         ELSE median(doc_font_sizes))
  /\ avg_headings_per_page' = <<avg_headings_per_page_of(text_elements)>>
  /\ pc' = "structured"
  /\ UNCHANGED <<text_elements, doc_font_sizes>>
  /\ UNCHANGED splitter_data_vars
  /\ UNCHANGED sampler_vars
  /\ UNCHANGED element_vars
  /\ UNCHANGED quality_vars
  /\ UNCHANGED semantic_vars
  /\ UNCHANGED ranking_vars
  /\ UNCHANGED line_vars
  /\ UNCHANGED display_vars
  /\ UNCHANGED auto_find_vars

(***************************************************************************)
(* ContentAnalyzer.analyze_content_structure: the spans of one line        *)
(***************************************************************************)
\* the texts of the spans of the model's lines, and their characters
SpanTexts == {" ", "x", "Magic Missile"}

span_chars(t) == IF t = " " THEN <<" ">> ELSE line_chars(t)

\* the spans of a line as page.get_text("dict") returns them, the size in
\* hundredths of a point
RawSpans ==
  [font : {"Helvetica", "Helvetica-Bold"}, size : {1000, 1400}, text : SpanTexts]

\* str.strip()
strip(s) ==
  LET kept == {k \in 1..Len(s) : ~isspace(s[k])}
  IN  IF kept = {} THEN <<>>
      ELSE SubSeq(s, CHOOSE k \in kept : \A j \in kept : k <= j,
                     CHOOSE k \in kept : \A j \in kept : j <= k)

\* font_usage[font_name] += n on the defaultdict(int)
usage_add(usage, font_name, n) ==
  IF \E k \in 1..Len(usage) : usage[k].font = font_name
    THEN [k \in 1..Len(usage) |->
            IF usage[k].font = font_name
              THEN [usage[k] EXCEPT !.chars = @ + n]
              ELSE usage[k]]
    ELSE Append(usage, [font |-> font_name, chars |-> n])

RECURSIVE read_spans(_, _)
\* the loop over line["spans"]: line_text, line_fonts and line_sizes of the
\* line, and font_usage and font_sizes of the document
read_spans(spans, acc) ==
  IF spans = <<>> THEN acc
  ELSE LET span == spans[1]
           text == strip(span_chars(span.text))
       IN  IF text # <<>>
             THEN read_spans(Tail(spans),
                    [line_text  |-> acc.line_text \o text \o <<" ">>,
                     line_fonts |-> Append(acc.line_fonts, span.font),
                     line_sizes |-> Append(acc.line_sizes, span.size),
                     font_usage |-> usage_add(acc.font_usage, span.font, Len(text)),
                     font_sizes |-> Append(acc.font_sizes, span.size)])
             ELSE read_spans(Tail(spans), acc)

\* analyze_content_structure: the body of the loop over block["lines"], for
\* a line of page 0
ExtractLine ==
  /\ pc = "spans"
  /\ LET read == read_spans(raw_line,
                            [line_text  |-> <<>>,
                             line_fonts |-> <<>>,
                             line_sizes |-> <<>>,
                             font_usage |-> font_usage,
                             font_sizes |-> doc_font_sizes])
     IN  /\ font_usage' = read.font_usage
         /\ doc_font_sizes' = read.font_sizes
         /\ IF strip(read.line_text) # <<>>
              THEN \E primary_font \in primary_fonts(read.line_fonts) :
                      text_elements' =
                        Append(text_elements,
                               text_element_of(strip(read.line_text), read.line_sizes,
                                               primary_font, 0))
              ELSE UNCHANGED text_elements
  /\ pc' = "extracted"
  /\ UNCHANGED raw_line
  /\ UNCHANGED <<median_size, heading_levels, avg_headings_per_page>>
  /\ UNCHANGED splitter_data_vars
  /\ UNCHANGED sampler_vars
  /\ UNCHANGED element_vars
  /\ UNCHANGED quality_vars
  /\ UNCHANGED semantic_vars
  /\ UNCHANGED ranking_vars
  /\ UNCHANGED display_vars
  /\ UNCHANGED auto_find_vars

(***************************************************************************)
(* toc_extractor.extract_and_display_toc                                   *)
(***************************************************************************)
\* the chapter ranges extract_and_display_toc prints for the entries of
\* three fields or more at chapter_level
displayed_chapters(t, chapter_level, pages) ==
  LET keep == {k \in 1..Len(t) :
                 t[k].len >= 3 /\ t[k].level_int /\ t[k].level = chapter_level}
      nth(j) == CHOOSE k \in keep : Cardinality({m \in keep : m < k}) = j - 1
      n == Cardinality(keep)
  IN  [idx \in 1..n |->
         LET start_page == t[nth(idx)].page
             end_page == IF idx + 1 <= n THEN t[nth(idx + 1)].page - 1 ELSE pages
         IN  [title      |-> t[nth(idx)].title,
              start_page |-> start_page,
              end_page   |-> end_page,
              page_count |-> end_page - start_page + 1]]

\* extract_and_display_toc(pdf_path, chapter_level) on the document: it
\* opens the document, prints the ranges and closes it again
ExtractAndDisplayToc ==
  /\ display_level = 0
  /\ \E chapter_level \in Levels :
        /\ display_level' = chapter_level
        /\ displayed' = displayed_chapters(toc, chapter_level, page_count)
  /\ UNCHANGED splitter_vars
  /\ UNCHANGED sampler_vars
  /\ UNCHANGED element_vars
  /\ UNCHANGED quality_vars
  /\ UNCHANGED semantic_vars
  /\ UNCHANGED ranking_vars
  /\ UNCHANGED structure_vars
  /\ UNCHANGED line_vars
  /\ UNCHANGED auto_find_vars

(***************************************************************************)
(* pdf_structure_mcp_server.auto_find_optimal_level                        *)
(***************************************************************************)
\* the heading levels of the analysed document, the fields that
\* auto_find_optimal_level reads: the keys ascend in the order of insertion,
\* avg_score is the mean of `count` structure scores
LevelInfos ==
  [avg_score : {[num |-> 5 * n, den |-> n] : n \in {1, 5}}
                 \cup {[num |-> 8 * n, den |-> n] : n \in {1, 5}},
   count     : {1, 5}]

HeadingLevelLists ==
  {[k \in 1..Len(infos) |->
      [level     |-> k,
       avg_score |-> infos[k].avg_score,
       count     |-> infos[k].count]] :
     infos \in {l \in SeqsUpTo(LevelInfos, MaxHeadingLevels) :
                  \A k \in 1..Len(l) : l[k].avg_score.den = l[k].count}}

\* the second component of the sort key, in tenths:
\* min(count, 100) if count >= 5 else count * 0.1
count_key(count) == IF count >= 5 THEN 10 * Min2(count, 100) ELSE count

\* the sort key of a is below that of b
level_key_less(a, b) ==
  \/ frac_less(a.avg_score, b.avg_score)
  \/ /\ ~frac_less(b.avg_score, a.avg_score)
     /\ count_key(a.count) < count_key(b.count)

RECURSIVE sorted_level_scores(_)
\* level_scores.sort(key=..., reverse=True): stable
sorted_level_scores(ls) ==
  IF ls = <<>> THEN <<>>
  ELSE LET n == Len(ls)
           x == ls[n]
           rest == sorted_level_scores(SubSeq(ls, 1, n - 1))
           p == Cardinality({k \in 1..Len(rest) : ~level_key_less(rest[k], x)})
       IN  SubSeq(rest, 1, p) \o <<x>> \o SubSeq(rest, p + 1, Len(rest))

\* [level for level, _, _ in level_scores[:max_levels]], max_levels >= 0
levels_to_try_of(levels, n) ==
  LET level_scores == sorted_level_scores(levels)
  IN  [k \in 1..Min2(n, Len(level_scores)) |-> level_scores[k].level]

\* what validate_structure does for a level: it returns the judgment of the
\* validation service, returns a JSON object with the key "error", or
\* raises (the upload or the service failed, the answer did not validate)
ValidationOutcomes == {"VALID", "INVALID", "TRY_LEVEL", "error", "raised"}

\* what suggest_strategy does for a level
StrategyOutcomes == {"returned", "raised"}

\* auto_find_optimal_level up to the loop over levels_to_try
AutoFindStart ==
  /\ pc = "auto_find"
  /\ IF heading_levels = <<>>
       THEN /\ af_result' = <<[error |-> "No heading levels detected in document"]>>
            /\ pc' = "found"
            /\ UNCHANGED levels_to_try
       ELSE /\ levels_to_try' = levels_to_try_of(heading_levels, max_levels)
            /\ pc' = "testing"
            /\ UNCHANGED af_result
  /\ UNCHANGED <<max_levels, tested, results>>
  /\ UNCHANGED splitter_data_vars
  /\ UNCHANGED sampler_vars
  /\ UNCHANGED element_vars
  /\ UNCHANGED quality_vars
  /\ UNCHANGED semantic_vars
  /\ UNCHANGED ranking_vars
  /\ UNCHANGED structure_vars
  /\ UNCHANGED line_vars
  /\ UNCHANGED display_vars

\* one iteration of the loop over levels_to_try
TestLevel ==
  /\ pc = "testing"
  /\ Len(tested) < Len(levels_to_try)
  /\ LET lvl == levels_to_try[Len(tested) + 1]
     IN  \E validation_outcome \in ValidationOutcomes,
            strategy_outcome \in StrategyOutcomes :
            /\ tested' = Append(tested, [level |-> lvl, status |-> validation_outcome])
            /\ IF validation_outcome = "raised"
                 THEN /\ results' = Append(results, [level |-> lvl, status |-> "error"])
                      /\ UNCHANGED <<pc, af_result>>
               ELSE IF validation_outcome = "error"
                 THEN UNCHANGED <<results, pc, af_result>>
               ELSE IF validation_outcome # "VALID"
                 THEN /\ results' = Append(results, [level |-> lvl, status |-> validation_outcome])
                      /\ UNCHANGED <<pc, af_result>>
               ELSE IF strategy_outcome = "raised"
                 THEN /\ results' =
                           results \o <<[level |-> lvl, status |-> "VALID"],
                                        [level |-> lvl, status |-> "error"]>>
                      /\ UNCHANGED <<pc, af_result>>
               ELSE /\ results' = Append(results, [level |-> lvl, status |-> "VALID"])
                    /\ af_result' = <<[success |-> TRUE, optimal_level |-> lvl]>>
                    /\ pc' = "found"
  /\ UNCHANGED <<max_levels, levels_to_try>>
  /\ UNCHANGED splitter_data_vars
  /\ UNCHANGED sampler_vars
  /\ UNCHANGED element_vars
  /\ UNCHANGED quality_vars
  /\ UNCHANGED semantic_vars
  /\ UNCHANGED ranking_vars
  /\ UNCHANGED structure_vars
  /\ UNCHANGED line_vars
  /\ UNCHANGED display_vars

\* the return after the loop: no valid level found
AutoFindFail ==
  /\ pc = "testing"
  /\ Len(tested) = Len(levels_to_try)
  /\ af_result' = <<[success |-> FALSE, optimal_level |-> 0]>>
  /\ pc' = "found"
  /\ UNCHANGED <<max_levels, levels_to_try, tested, results>>
  /\ UNCHANGED splitter_data_vars
  /\ UNCHANGED sampler_vars
  /\ UNCHANGED element_vars
  /\ UNCHANGED quality_vars
  /\ UNCHANGED semantic_vars
  /\ UNCHANGED ranking_vars
  /\ UNCHANGED structure_vars
  /\ UNCHANGED line_vars
  /\ UNCHANGED display_vars

(***************************************************************************)
(* Specifications.                                                         *)
(***************************************************************************)
SplitterIdle ==
  /\ validation = "none"
  /\ prompted = FALSE
  /\ level_analysis = <<>>
  /\ reports = <<>>
  /\ chapters = <<>>
  /\ level = 0
  /\ i = 0
  /\ written = <<>>
  /\ skipped = {}
  /\ answer = "none"

SamplerIdle ==
  /\ ca_page_count = 0
  /\ sample_ratio = 3
  /\ pages_to_analyze = <<>>

ElementIdle ==
  /\ line = <<>>
  /\ element = <<>>

QualityIdle ==
  /\ font_analysis = EmptyFontAnalysis
  /\ structural_elements = structural_elements_of(<<>>, 0)
  /\ structure_quality = <<>>

SemanticIdle ==
  /\ st_title = <<>>
  /\ st_score = <<>>

RankingIdle ==
  /\ analysis_dict = <<>>
  /\ optimal_levels = <<>>

StructureIdle ==
  /\ text_elements = <<>>
  /\ doc_font_sizes = <<>>
  /\ median_size = <<>>
  /\ heading_levels = <<>>
  /\ avg_headings_per_page = <<>>

LineIdle ==
  /\ raw_line = <<>>
  /\ font_usage = <<>>

DisplayIdle ==
  /\ displayed = <<>>
  /\ display_level = 0

AutoFindIdle ==
  /\ max_levels = 0
  /\ levels_to_try = <<>>
  /\ tested = <<>>
  /\ results = <<>>
  /\ af_result = <<>>

ExtensionIdle ==
  RankingIdle /\ StructureIdle /\ LineIdle /\ DisplayIdle /\ AutoFindIdle

ContentIdle == ElementIdle /\ QualityIdle /\ SemanticIdle /\ ExtensionIdle

\* main of pdf_splitter.py in batch mode: a DocumentSplitter is about to be
\* constructed on some document, split_document and close follow
Init ==
  /\ toc \in Tocs
  /\ page_count \in 1..MaxPages
  /\ pc = "new"
  /\ handles = {}
  /\ SplitterIdle
  /\ SamplerIdle
  /\ ContentIdle

Next ==
  \/ ValidateDocument
  \/ AnswerPrompt
  \/ SplitDocument
  \/ SplitToPdfStep
  \/ SplitToPdfReturn
  \/ Close

Spec == Init /\ [][Next]_vars

\* a TOCAnalyzer has been constructed on some document
InitAnalyzer ==
  /\ toc \in Tocs
  /\ page_count \in 1..MaxPages
  /\ pc = "analyzer"
  /\ handles = {"analyzer.doc"}
  /\ SplitterIdle
  /\ SamplerIdle
  /\ ContentIdle

NextAnalyzer == AnalyzeStructure

SpecAnalyzer == InitAnalyzer /\ [][NextAnalyzer]_vars

\* a ContentAnalyzer is about to sample some document with some ratio
InitSampler ==
  /\ ca_page_count \in 0..MaxN
  /\ sample_ratio \in 0..MaxRatio
  /\ pages_to_analyze = <<>>
  /\ pc = "sampler"
  /\ toc = <<>>
  /\ page_count = 1
  /\ handles = {"content_analyzer.doc"}
  /\ SplitterIdle
  /\ ContentIdle

NextSampler == SamplePages

SpecSampler == InitSampler /\ [][NextSampler]_vars

\* the outlines of the validation gate: up to MaxGateToc entries, each one
\* well-formed (of four or of three fields), too short, or with a level or
\* a page that is not an integer
GateEntries ==
  {[len |-> 4, level |-> 1, title |-> "Part I", page |-> 1,
    level_int |-> TRUE, page_int |-> TRUE],
   [len |-> 3, level |-> 1, title |-> "x", page |-> 1,
    level_int |-> TRUE, page_int |-> TRUE],
   [len |-> 2, level |-> 1, title |-> "x", page |-> 0,
    level_int |-> TRUE, page_int |-> FALSE],
   [len |-> 4, level |-> 0, title |-> "x", page |-> 1,
    level_int |-> FALSE, page_int |-> TRUE],
   [len |-> 4, level |-> 1, title |-> "x", page |-> 0,
    level_int |-> TRUE, page_int |-> FALSE]}

GateTocs == SeqsUpTo(GateEntries, MaxGateToc)

\* a DocumentSplitter is about to be constructed on a document whose outline
\* may hold malformed entries
InitGate ==
  /\ toc \in GateTocs
  /\ page_count = MaxPages
  /\ pc = "new"
  /\ handles = {}
  /\ SplitterIdle
  /\ SamplerIdle
  /\ ContentIdle

NextGate ==
  \/ ValidateDocument
  \/ AnswerPrompt

SpecGate == InitGate /\ [][NextGate]_vars

\* _extract_text_elements has read some line of text off a page and is
\* about to hand it to _analyze_text_element
InitElement ==
  /\ line \in Lines
  /\ element = <<>>
  /\ pc = "line"
  /\ toc = <<>>
  /\ page_count = 1
  /\ handles = {"content_analyzer.doc"}
  /\ SplitterIdle
  /\ SamplerIdle
  /\ QualityIdle
  /\ SemanticIdle
  /\ ExtensionIdle

NextElement == AnalyzeTextElement

SpecElement == InitElement /\ [][NextElement]_vars

\* analyze_content_structure has run _analyze_font_patterns and
\* _identify_structural_elements on the sampled pages; a document without
\* text leaves font_analysis empty and no headings
InitQuality ==
  /\ \/ /\ font_analysis \in FontAnalyses
        /\ \E scores \in SortedScores(MaxHeadings), text_pages \in TextPages :
              structural_elements = structural_elements_of(scores, text_pages)
     \/ /\ font_analysis = EmptyFontAnalysis
        /\ structural_elements = structural_elements_of(<<>>, 0)
  /\ structure_quality = <<>>
  /\ pc = "patterns"
  /\ toc = <<>>
  /\ page_count = 1
  /\ handles = {"content_analyzer.doc"}
  /\ SplitterIdle
  /\ SamplerIdle
  /\ ElementIdle
  /\ SemanticIdle
  /\ ExtensionIdle

NextQuality == AssessStructureQuality

SpecQuality == InitQuality /\ [][NextQuality]_vars

\* analyze_structure is about to score the title of some outline entry
InitSemantic ==
  /\ st_title \in SeqsUpTo(TitleWords, MaxTitleWords)
  /\ st_score = <<>>
  /\ pc = "title"
  /\ toc = <<>>
  /\ page_count = 1
  /\ handles = {"analyzer.doc"}
  /\ SplitterIdle
  /\ SamplerIdle
  /\ ElementIdle
  /\ QualityIdle
  /\ ExtensionIdle

NextSemantic == CalculateSemanticScore

SpecSemantic == InitSemantic /\ [][NextSemantic]_vars

\* _generate_analysis_report is about to rank the levels of some analysis
InitRanking ==
  /\ analysis_dict \in Analyses
  /\ optimal_levels = <<>>
  /\ pc = "analysis"
  /\ toc = <<>>
  /\ page_count = 1
  /\ handles = {"analyzer.doc"}
  /\ SplitterIdle
  /\ SamplerIdle
  /\ ElementIdle
  /\ QualityIdle
  /\ SemanticIdle
  /\ StructureIdle
  /\ LineIdle
  /\ DisplayIdle
  /\ AutoFindIdle

NextRanking == DetermineOptimalLevels

SpecRanking == InitRanking /\ [][NextRanking]_vars

\* analyze_content_structure has read the lines of the sampled pages of a
\* document of MaxPages pages, all of them sampled
InitStructure ==
  /\ \E ls \in StructureDocuments :
        /\ text_elements = [k \in 1..Len(ls) |-> ls[k].element]
        /\ doc_font_sizes = flattened(ls)
  /\ median_size = <<>>
  /\ heading_levels = <<>>
  /\ avg_headings_per_page = <<>>
  /\ ca_page_count = MaxPages
  /\ sample_ratio = 3
  /\ pages_to_analyze = sampled_pages(MaxPages, 3)
  /\ pc = "elements"
  /\ toc = <<>>
  /\ page_count = 1
  /\ handles = {"content_analyzer.doc"}
  /\ SplitterIdle
  /\ ElementIdle
  /\ QualityIdle
  /\ SemanticIdle
  /\ RankingIdle
  /\ LineIdle
  /\ DisplayIdle
  /\ AutoFindIdle

NextStructure == AnalyzePatterns

SpecStructure == InitStructure /\ [][NextStructure]_vars

\* analyze_content_structure is about to read the first line of the first
\* sampled page
InitLine ==
  /\ raw_line \in SeqsUpTo(RawSpans, MaxLineSpans)
  /\ font_usage = <<>>
  /\ StructureIdle
  /\ pc = "spans"
  /\ toc = <<>>
  /\ page_count = 1
  /\ handles = {"content_analyzer.doc"}
  /\ SplitterIdle
  /\ SamplerIdle
  /\ ElementIdle
  /\ QualityIdle
  /\ SemanticIdle
  /\ RankingIdle
  /\ DisplayIdle
  /\ AutoFindIdle

NextLine == ExtractLine

SpecLine == InitLine /\ [][NextLine]_vars

\* the extractor and the splitter are run on the same document, in any
\* order
InitExtractor == Init

NextExtractor ==
  \/ ExtractAndDisplayToc
  \/ Next

SpecExtractor == InitExtractor /\ [][NextExtractor]_vars

\* auto_find_optimal_level has analysed the document and read
\* max_levels_to_try
InitAutoFind ==
  /\ heading_levels \in HeadingLevelLists
  /\ max_levels \in 0..MaxLevelsToTry
  /\ levels_to_try = <<>>
  /\ tested = <<>>
  /\ results = <<>>
  /\ af_result = <<>>
  /\ text_elements = <<>>
  /\ doc_font_sizes = <<>>
  /\ median_size = <<>>
  /\ avg_headings_per_page = <<>>
  /\ pc = "auto_find"
  /\ toc = <<>>
  /\ page_count = 1
  /\ handles = {}
  /\ SplitterIdle
  /\ SamplerIdle
  /\ ElementIdle
  /\ QualityIdle
  /\ SemanticIdle
  /\ RankingIdle
  /\ LineIdle
  /\ DisplayIdle

NextAutoFind ==
  \/ AutoFindStart
  \/ TestLevel
  \/ AutoFindFail

SpecAutoFind == InitAutoFind /\ [][NextAutoFind]_vars

(***************************************************************************)
(* Properties.                                                             *)
(***************************************************************************)
\* get_chapters_at_level has returned in this run
Resolved == pc \in {"split_to_pdf", "returned"}

\* the pages of the well-formed entries of the outline at a level, in
\* outline order, read off the outline itself
pages_at_level(t, lvl) ==
  LET at == SelectSeq(t, LAMBDA e : e.len >= 3 /\ e.level = lvl)
  IN  [k \in 1..Len(at) |-> at[k].page]

entry_pages == pages_at_level(toc, level)

start_pages == [k \in 1..Len(chapters) |-> chapters[k].start_page]

\* every well-formed entry of the outline points to a page of the document
PagesInDocument ==
  \A k \in 1..Len(toc) : toc[k].len >= 3 => toc[k].page \in 1..page_count

Ascending(s) == \A k \in 1..(Len(s) - 1) : s[k] <= s[k + 1]

\* the page before the next heading of the level, or the last page of the
\* document for the last heading
nominal_end(pgs, k, pages) == IF k < Len(pgs) THEN pgs[k + 1] - 1 ELSE pages

chapter_ok(c) ==
  /\ c.start_page <= c.end_page
  /\ c.page_count = c.end_page - c.start_page + 1
  /\ c.page_count >= 1

\* C1: every chapter returned by get_chapters_at_level, for any outline, any
\* level and any total page count, has start_page <= end_page and
\* page_count = end_page - start_page + 1 >= 1.
C1_ChapterPageCount ==
  /\ \A k \in 1..Len(chapters) : chapter_ok(chapters[k])
  /\ \A lvl \in Levels :
       LET cs == get_chapters_at_level(toc, lvl, page_count)
       IN  \A k \in 1..Len(cs) : chapter_ok(cs[k])

\* a run in which a heading lies on or after the page of the next heading
C1_Witness ==
  /\ Resolved
  /\ Len(chapters) = 2
  /\ chapters[1].start_page >= chapters[2].start_page

\* C2 as claimed: for a page-ascending list of same-level headings the
\* chapters are pairwise disjoint, each starts on the page after the previous
\* one ends, and the last one ends on total_page_count (stated here for
\* headings that all lie on pages of the document).
C2_NonOverlapping ==
  (Resolved /\ PagesInDocument /\ Ascending(entry_pages)) =>
    /\ \A j, k \in 1..Len(chapters) :
         j < k => chapters[j].end_page < chapters[k].start_page
    /\ \A k \in 1..(Len(chapters) - 1) :
         chapters[k + 1].start_page = chapters[k].end_page + 1
    /\ chapters # <<>> => chapters[Len(chapters)].end_page = page_count

\* C2, amended: for a page-ascending list of same-level headings a chapter
\* ends on the page before the next heading, except that a heading on the
\* same page as the next one keeps that single page, which the next chapter
\* contains too; two chapters share a page in no other case; the last chapter
\* ends on total_page_count, or on its own start page when that lies beyond
\* total_page_count.
C2_NonOverlappingUnlessSamePage ==
  (Resolved /\ Ascending(entry_pages)) =>
    /\ \A k \in 1..(Len(chapters) - 1) :
         IF chapters[k].start_page < chapters[k + 1].start_page
           THEN chapters[k + 1].start_page = chapters[k].end_page + 1
           ELSE chapters[k].end_page = chapters[k].start_page
    /\ \A j, k \in 1..Len(chapters) :
         (j < k /\ chapters[j].end_page >= chapters[k].start_page) =>
            /\ chapters[j].start_page = chapters[k].start_page
            /\ chapters[j].end_page = chapters[j].start_page
    /\ chapters # <<>> =>
         LET last == chapters[Len(chapters)]
         IN  last.end_page = IF last.start_page <= page_count
                               THEN page_count ELSE last.start_page

\* two headings on different pages, in page order, resolved
C2_Witness ==
  /\ Resolved
  /\ Len(chapters) = 2
  /\ chapters[1].start_page < chapters[2].start_page
  /\ chapters[2].end_page = page_count

\* C3 as claimed: for every outline that passes validation and every level,
\* the chapter list is sorted by start_page ascending (stated here for
\* outlines whose entries all lie on pages of the document).
C3_SortedByStartPage == (Resolved /\ PagesInDocument) => Ascending(start_pages)

\* C3, amended: the chapter list is in outline order (chapter k starts on the
\* page of the k-th well-formed entry of the level), so it is sorted by
\* start_page ascending whenever the entries of the level are in page order;
\* validation does not check the page order.
C3_OutlineOrder ==
  Resolved =>
    /\ start_pages = entry_pages
    /\ Ascending(entry_pages) => Ascending(start_pages)

\* headings on pages 1 and 3, resolved in that order
C3_Witness ==
  /\ Resolved
  /\ Len(chapters) = 2
  /\ chapters[1].start_page = 1
  /\ chapters[2].start_page = 3

\* C4 as claimed: chapter k ends on the page before the start page of the
\* next entry of the level, and the last chapter ends on the total page count
\* (stated here for page-ascending entries on pages of the document).
C4_EndBeforeNext ==
  (Resolved /\ PagesInDocument /\ Ascending(entry_pages)) =>
    \A k \in 1..Len(chapters) :
       chapters[k].end_page = nominal_end(entry_pages, k, page_count)

\* C4, amended: chapter k ends on the page before the start page of the next
\* entry of the level, and the last chapter on the total page count, unless
\* that page is before the chapter's own start page; level-1 entries on pages
\* 1 and 10 of a 15-page document give 1-9 (9 pages) and 10-15 (6 pages).
C4_EndBeforeNextUnlessBelowStart ==
  /\ Resolved =>
       \A k \in 1..Len(chapters) :
          LET end == nominal_end(entry_pages, k, page_count)
          IN  end >= entry_pages[k] =>
                /\ chapters[k].start_page = entry_pages[k]
                /\ chapters[k].end_page = end
                /\ chapters[k].page_count = end - entry_pages[k] + 1
  /\ get_chapters_at_level(
       <<[len |-> 4, level |-> 1, title |-> "Part I", page |-> 1,
          level_int |-> TRUE, page_int |-> TRUE],
         [len |-> 4, level |-> 1, title |-> "Part II", page |-> 10,
          level_int |-> TRUE, page_int |-> TRUE]>>, 1, 15)
     = <<[title |-> "Part I", start_page |-> 1, end_page |-> 9, page_count |-> 9],
         [title |-> "Part II", start_page |-> 10, end_page |-> 15, page_count |-> 6]>>

\* headings on pages 1 and 3 of a 3-page document resolved to 1-2 and 3-3
C4_Witness ==
  /\ Resolved
  /\ page_count = 3
  /\ Len(chapters) = 2
  /\ chapters[1].start_page = 1 /\ chapters[1].end_page = 2
  /\ chapters[2].start_page = 3 /\ chapters[2].end_page = 3

\* C5: whenever the computed end page of a chapter is below its start page,
\* get_chapters_at_level sets end_page to start_page, so the chapter keeps
\* exactly one page, and the run goes on; headings A and B both on page 7 of
\* a 20-page document give A 7-7 and B 7-20.
C5_SamePageKeepsOnePage ==
  /\ Resolved =>
       /\ validation = "passed"
       /\ Len(chapters) = Len(entry_pages)
       /\ \A k \in 1..Len(chapters) :
            nominal_end(entry_pages, k, page_count) < entry_pages[k] =>
               /\ chapters[k].start_page = entry_pages[k]
               /\ chapters[k].end_page = entry_pages[k]
               /\ chapters[k].page_count = 1
  /\ get_chapters_at_level(
       <<[len |-> 4, level |-> 1, title |-> "A", page |-> 7,
          level_int |-> TRUE, page_int |-> TRUE],
         [len |-> 4, level |-> 1, title |-> "B", page |-> 7,
          level_int |-> TRUE, page_int |-> TRUE]>>, 1, 20)
     = <<[title |-> "A", start_page |-> 7, end_page |-> 7, page_count |-> 1],
         [title |-> "B", start_page |-> 7, end_page |-> 20, page_count |-> 14]>>

\* two headings of the level on one page, the first resolved to that page
C5_Witness ==
  /\ Resolved
  /\ Len(chapters) = 2
  /\ chapters[1].start_page = chapters[2].start_page
  /\ chapters[1].start_page >= 1
  /\ chapters[1].page_count = 1

\* C6: split_to_pdf clamps each range to start = max(1, start_page) and
\* end = min(total_page_count, end_page); a chapter whose clamped start
\* exceeds its clamped end is skipped and the loop goes on with the next
\* chapter; every sub-document written holds exactly end - start + 1 >= 1
\* pages, all of them pages of the source document.
C6_ClampAndSkip ==
  /\ \A w \in 1..Len(written) :
       LET doc == written[w]
           c == chapters[doc.chapter]
       IN  /\ doc.start_page = (IF c.start_page < 1 THEN 1 ELSE c.start_page)
           /\ doc.end_page = (IF c.end_page > page_count THEN page_count
                              ELSE c.end_page)
           /\ doc.pages_added = doc.end_page - doc.start_page + 1
           /\ doc.pages_added >= 1
           /\ doc.pages = (doc.start_page - 1)..(doc.end_page - 1)
           /\ doc.pages \subseteq 0..(page_count - 1)
  /\ \A k \in skipped :
       \/ chapters[k].start_page > page_count
       \/ chapters[k].end_page < 1
       \/ chapters[k].start_page > chapters[k].end_page
  /\ Resolved =>
       \A k \in 1..Len(chapters) :
          IF k < i
            THEN (k \in skipped) # (\E w \in 1..Len(written) : written[w].chapter = k)
            ELSE k \notin skipped /\ \A w \in 1..Len(written) : written[w].chapter # k
  /\ (pc = "returned" /\ chapters # <<>>) => i = Len(chapters) + 1

\* the first chapter was skipped and the second one written after it
C6_Witness ==
  /\ pc = "returned"
  /\ skipped = {1}
  /\ Len(written) = 1
  /\ written[1].chapter = 2

\* the multiples of step below n, in increasing order
multiples_below(n, step) ==
  [k \in 1..Cardinality({m \in 0..(n - 1) : m % step = 0}) |-> (k - 1) * step]

\* C7: for every page count N >= 0 and every sample ratio the sampled pages
\* are strictly increasing page indexes, each below N, and N = 0 gives an
\* empty sample.
C7_SampleWithinDocument ==
  pc = "sampled" =>
    /\ \A k \in 1..(Len(pages_to_analyze) - 1) :
         pages_to_analyze[k] < pages_to_analyze[k + 1]
    /\ \A k \in 1..Len(pages_to_analyze) :
         0 <= pages_to_analyze[k] /\ pages_to_analyze[k] < ca_page_count
    /\ ca_page_count = 0 => pages_to_analyze = <<>>

\* a document of more than 10 pages sampled with a step above 1
C7_Witness ==
  /\ pc = "sampled"
  /\ ca_page_count > 10
  /\ Len(pages_to_analyze) >= 2
  /\ pages_to_analyze[2] >= 2

\* C8 as claimed: every page when N <= 10, else the pages 0, step, 2*step, ...
\* below N with step = max(1, N // sample_count) and
\* sample_count = max(10, round(N * ratio)).
C8_SampleStepRounded ==
  pc = "sampled" =>
    pages_to_analyze =
      IF ca_page_count <= 10 THEN [k \in 1..ca_page_count |-> k - 1]
      ELSE LET count == Max2(10, round_half_even(ca_page_count * sample_ratio, 10))
           IN  multiples_below(ca_page_count, Max2(1, ca_page_count \div count))

\* C8, amended: every page when N <= 10, else the pages 0, step, 2*step, ...
\* below N with step = max(1, N // sample_count) and
\* sample_count = max(10, int(N * ratio)), the product truncated, not rounded.
C8_SampleStepTruncated ==
  pc = "sampled" =>
    pages_to_analyze =
      IF ca_page_count <= 10 THEN [k \in 1..ca_page_count |-> k - 1]
      ELSE LET count == Max2(10, (ca_page_count * sample_ratio) \div 10)
           IN  multiples_below(ca_page_count, Max2(1, ca_page_count \div count))

\* 23 pages at ratio 0.5: int(11.5) = 11 gives step 2 and 12 sampled pages
C8_Witness ==
  /\ pc = "sampled"
  /\ ca_page_count = 23
  /\ sample_ratio = 5
  /\ Len(pages_to_analyze) = 12

\* C9: calling analyze_structure any number of times on the same analyzer
\* returns the same level groups, counts, page spans, scores and ranking each
\* time (stated here for outlines whose entries lie on pages of the document).
C9_RepeatedAnalysisIdentical ==
  PagesInDocument => \A j, k \in 1..Len(reports) : reports[j] = reports[k]

\* C10: validation rejects a document with no outline and one whose outline
\* has fewer than 2 entries, does not reject an outline of exactly 2 entries
\* for its number of entries, and a rejected document reaches neither
\* get_chapters_at_level nor split_to_pdf.
C10_ValidationGate ==
  /\ (pc # "new" /\ toc = <<>>) =>
        pc = "rejected" /\ validation = "no_toc"
  /\ (pc # "new" /\ Len(toc) = 1) =>
        pc = "rejected" /\ validation = "insufficient_entries"
  /\ Len(toc) >= 2 => validation # "insufficient_entries"
  /\ pc = "rejected" =>
        validation \in {"no_toc", "insufficient_entries", "malformed", "cancelled"}
  /\ validation # "passed" =>
        /\ ~Resolved
        /\ level = 0 /\ chapters = <<>>
        /\ i = 0 /\ written = <<>> /\ skipped = {}

\* an outline of exactly two entries passed validation and was split
C10_Witness ==
  /\ Len(toc) = 2
  /\ validation = "passed"
  /\ ~prompted
  /\ pc = "returned"
  /\ written # <<>>

\* the well-formed entries of the outline: at least three fields, the first
\* and the third of them integers
well_formed(entry) == entry.len >= 3 /\ entry.level_int /\ entry.page_int

well_formed_count == Cardinality({k \in 1..Len(toc) : well_formed(toc[k])})

\* C11: an outline (of two entries or more) is rejected as malformed exactly
\* when fewer than 80% of its entries are well-formed; with exactly 80%
\* well-formed Check 3 accepts it.
C11_EightyPercentBoundary ==
  pc # "new" =>
    (validation = "malformed" <=>
       (Len(toc) >= 2 /\ 100 * well_formed_count < 80 * Len(toc)))

\* exactly four of five entries are well-formed, the fifth has a page that is
\* not an integer, and Check 3 has let the outline through
C11_Witness ==
  /\ pc # "new"
  /\ Len(toc) = 5
  /\ well_formed_count = 4
  /\ \E k \in 1..5 : toc[k].len >= 3 /\ ~toc[k].page_int
  /\ validation # "malformed"

\* split_document has been called in this run
Extracting == pc \in {"split_to_pdf", "returned", "closed"}

\* the best ranking score of the validation's analysis is below 10
best_score_below_ten ==
  \A j \in 1..Len(reports[1][1].level_scores) :
     frac_less(reports[1][1].level_scores[j].score, [num |-> 10, den |-> 1])

\* C12: when the analysis of the validation has run, the caller is asked for
\* confirmation exactly when the best ranking score is below 10; the
\* validation passes when the caller answers y or yes, and after a question
\* nothing is extracted unless the caller has answered so.
C12_LowScoreNeedsConfirmation ==
  /\ reports # <<>> => (prompted <=> best_score_below_ten)
  /\ answer \in {"y", "yes"} => (validation = "passed" /\ pc # "rejected")
  /\ (prompted /\ Extracting) => answer \in {"y", "yes"}
  /\ (prompted /\ answer \notin {"none", "y", "yes"}) => pc = "rejected"

\* the best score was below 10, the caller confirmed, and pages were written
C12_Witness ==
  /\ prompted
  /\ best_score_below_ten
  /\ answer = "y"
  /\ pc = "closed"
  /\ written # <<>>

\* C13: in batch mode the program never waits for input.
C13_BatchNeverWaits == pc # "prompt"

\* the run is over: __init__ raised, or close has returned
RunOver == pc \in {"rejected", "closed"}

\* C14: when a run is over, every document it opened has been closed.
C14_HandlesReleased == RunOver => handles = {}

\* the fonts whose name says bold, in whatever case
BoldFonts == {"Helvetica-Bold", "ARIAL-BOLD"}

\* the line "FIREBALL" at a mean size of 18pt in a bold font has been scored
FireballScored ==
  /\ element # <<>>
  /\ line.text = "FIREBALL"
  /\ element[1].font_size.num = 18 * element[1].font_size.den
  /\ element[1].font_name \in BoldFonts

\* C15 as stated: the line "FIREBALL" at a mean size of 18pt in a bold font
\* gets structure_score 30.
C15_FireballScores30 ==
  FireballScored => element[1].structure_score = 30

\* C15: the line "FIREBALL" at a mean size of 18pt in a bold font gets
\* structure_score 36: very_large_font +10, is_bold +8, large_font +6,
\* uppercase and short +9, standalone_line +3.
C15_FireballScores36 ==
  FireballScored =>
    /\ element[1].structure_score = 10 + 8 + 6 + 9 + 3
    /\ element[1].indicators.very_large_font
    /\ element[1].indicators.large_font
    /\ element[1].indicators.is_bold
    /\ element[1].indicators.is_uppercase
    /\ element[1].indicators.is_short
    /\ element[1].indicators.standalone_line
    /\ ~element[1].indicators.is_numbered
    /\ ~element[1].indicators.is_title_case
    /\ ~element[1].indicators.has_colon
    /\ ~element[1].indicators.ends_period

C15_Witness == FireballScored /\ element[1].font_name = "ARIAL-BOLD"

\* the weight an indicator adds to the structure score when it holds
weight(holds, w) == IF holds THEN w ELSE 0

\* the number of words of the line that was scored
line_words == word_count(line_chars(line.text))

\* the mean size of the spans of the line is above pt points
mean_size_above(pt) ==
  SumSeq([k \in 1..Len(line.spans) |-> line.spans[k].size]) > pt * Len(line.spans)

\* C19: the structure_score of a text element is the sum of the weights of
\* the indicators that hold, computed from that element alone: +10 mean
\* size above 16pt, +8 bold, +6 mean size above 12pt, +7 numbered, +9
\* uppercase and at most 8 words, +5 title case and at most 8 words, +4
\* ends with a colon, +3 at most 3 words, -3 ends with a period and more
\* than 8 words, -2 more than 15 words.
C19_StructureScoreIsSumOfWeights ==
  element # <<>> =>
    LET ind == element[1].indicators
        text == line_chars(line.text)
    IN  /\ element[1].structure_score =
               weight(mean_size_above(16), 10)
             + weight(element[1].font_name \in BoldFonts, 8)
             + weight(mean_size_above(12), 6)
             + weight(ind.is_numbered, 7)
             + weight(ind.is_uppercase /\ line_words <= 8, 9)
             + weight(ind.is_title_case /\ line_words <= 8, 5)
             + weight(text[Len(text)] = ":", 4)
             + weight(line_words <= 3, 3)
             + weight(text[Len(text)] = "." /\ line_words > 8, -3)
             + weight(line_words > 15, -2)
        /\ ind.very_large_font <=> mean_size_above(16)
        /\ ind.large_font <=> mean_size_above(12)
        /\ ind.very_large_font => ind.large_font
        /\ ind.is_short <=> line_words <= 8
        /\ ind.standalone_line <=> line_words <= 3

\* a line of body text has been given a negative score
C19_Witness ==
  /\ element # <<>>
  /\ element[1].structure_score = -5
  /\ line_words > 15

\* the four bonuses of the quality score, from the fonts and the headings
\* the assessment was made on
bonus_fonts == IF font_analysis.total_fonts > 3 THEN 20 ELSE 0

bonus_size_range ==
  IF font_analysis.size_range.max - font_analysis.size_range.min > 8
    THEN 25 ELSE 0

bonus_density ==
  LET d == structural_elements.avg_headings_per_page
  IN  IF 10 * d.num >= 5 * d.den /\ d.num <= 3 * d.den THEN 20 ELSE 0

headings_above_ten ==
  Cardinality({k \in 1..Len(structural_elements.potential_headings) :
                 structural_elements.potential_headings[k] > 10})

bonus_high_scores == IF headings_above_ten > 3 THEN 15 ELSE 0

\* the quality score is the sum of the four bonuses, at most 80, and the
\* verdict follows the bands 60, 40, 20
QualityScoreAndVerdict ==
  structure_quality # <<>> =>
    LET q == structure_quality[1]
    IN  /\ q.score = bonus_fonts + bonus_size_range + bonus_density
                       + bonus_high_scores
        /\ q.score <= 80
        /\ q.assessment = "Excellent" <=> q.score >= 60
        /\ q.assessment = "Good" <=> (q.score >= 40 /\ q.score < 60)
        /\ q.assessment = "Fair" <=> (q.score >= 20 /\ q.score < 40)
        /\ q.assessment = "Poor" <=> q.score < 20

\* a document with 2 fonts, a size range of 3pt and 0.1 headings per page
\* has been assessed
SparseDocumentAssessed ==
  /\ structure_quality # <<>>
  /\ font_analysis.total_fonts = 2
  /\ font_analysis.size_range.max - font_analysis.size_range.min = 3
  /\ 10 * structural_elements.avg_headings_per_page.num
       = structural_elements.avg_headings_per_page.den

\* C16 as stated: the quality score is the sum of the four bonuses, never
\* above 80, with the verdict bands 60, 40, 20, and a document with 2 fonts,
\* a 3pt range and density 0.1 scores 0 and is rated poor.
C16_QualityScore ==
  /\ QualityScoreAndVerdict
  /\ SparseDocumentAssessed =>
       (structure_quality[1].score = 0 /\ structure_quality[1].assessment = "Poor")

\* C16: the quality score is the sum of the four bonuses, never above 80,
\* with the verdict bands 60, 40, 20; a document with 2 fonts, a 3pt range
\* and density 0.1 is rated poor, and scores 0 unless more than 3 of its
\* headings score above 10, in which case it scores 15.
C16_QualityScoreWithHighScores ==
  /\ QualityScoreAndVerdict
  /\ SparseDocumentAssessed =>
       /\ structure_quality[1].assessment = "Poor"
       /\ structure_quality[1].score = IF headings_above_ten > 3 THEN 15 ELSE 0

\* the sparse document of the scenario, with four headings above 10 on its
\* 40 pages, has been assessed
C16_Witness ==
  /\ SparseDocumentAssessed
  /\ headings_above_ten = 4
  /\ structure_quality[1].score = 15

\* the ranked_levels of the first analysis of the outline
first_ranked == reports[1][1].ranked_levels

\* C17: ranked_levels is ordered by score, highest first, and levels of
\* equal score appear in ascending level number, whatever the order in which
\* the levels first appear in the outline.
C17_RankedDescendingTiesAscending ==
  (reports # <<>> /\ reports[1] # <<>>) =>
    \A a, b \in 1..Len(first_ranked) :
       a < b =>
         /\ ~frac_less(first_ranked[a].score, first_ranked[b].score)
         /\ ~frac_less(first_ranked[b].score, first_ranked[a].score) =>
              first_ranked[a].level < first_ranked[b].level

\* every ranking score of every report, in level_scores and in ranked_levels
all_scores ==
  UNION {{reports[k][1].level_scores[j].score :
            j \in 1..Len(reports[k][1].level_scores)}
         \cup {reports[k][1].ranked_levels[j].score :
                 j \in 1..Len(reports[k][1].ranked_levels)} :
         k \in {n \in 1..Len(reports) : reports[n] # <<>>}}

present(keyword) == contains(keyword, lower(joined(st_title)))

\* the keywords of a list of semantic_patterns that occur in the scored title
present_among(keywords) ==
  {keywords[k] : k \in {n \in 1..Len(keywords) : present(keywords[n])}}

\* the number of words of the scored title
title_words == word_count(joined(st_title))

\* C20: the semantic score of a title is never negative and is the sum of
\* 10 per chapter-indicator keyword present, 7 per content-type category
\* with a keyword or more present, 5 per structural word present, 3 for 2
\* to 6 words or 1 for more than 6, 2 for title case and 1 for a digit.
C20_SemanticScore ==
  st_score # <<>> =>
    /\ st_score[1] >= 0
    /\ st_score[1] =
           10 * Cardinality(present_among(chapter_indicators))
         + 7 * Cardinality({c \in 1..Len(content_types) :
                              present_among(content_types[c].words) # {}})
         + 5 * Cardinality(present_among(structural_words))
         + (IF title_words >= 2 /\ title_words <= 6 THEN 3
            ELSE IF title_words > 6 THEN 1 ELSE 0)
         + (IF istitle(joined(st_title)) THEN 2 ELSE 0)
         + (IF \E k \in 1..Len(joined(st_title)) :
                  joined(st_title)[k] \in DigitChars
              THEN 1 ELSE 0)

\* a title with two keywords of one category has been scored: "Spells
\* Monster" gets 7 for the category, 3 for its two words, 2 for title case
C20_Witness ==
  /\ st_title = <<"Spells", "Monster">>
  /\ st_score = <<12>>

\* the statistics of the level that was ranked, and its score
ranked_stats == analysis_dict[1].stats

ranked_score == optimal_levels[1].level_scores[1].score

RECURSIVE Total(_, _, _)
\* the sum of the page spans number lo to hi of the ranked level
Total(xs, lo, hi) ==
  IF lo > hi THEN 0
  ELSE IF lo = hi THEN xs[lo]
  ELSE Total(xs, lo, (lo + hi) \div 2) + Total(xs, (lo + hi) \div 2 + 1, hi)

span_total == Total(ranked_stats.page_ranges, 1, ranked_stats.count)

\* the count band of the ranking score
count_points ==
  LET n == ranked_stats.count
  IN  IF n >= 3 /\ n <= 50 THEN 20
      ELSE IF n >= 51 /\ n <= 100 THEN 15
      ELSE IF n <= 2 THEN -10
      ELSE IF n > 200 THEN -5
      ELSE 0

\* the span band of the ranking score, on the average span span_total / n
span_points ==
  LET n == ranked_stats.count
  IN  IF span_total >= 5 * n /\ span_total <= 100 * n THEN 20
      ELSE IF span_total >= 101 * n /\ span_total <= 200 * n THEN 15
      ELSE IF span_total < 3 * n THEN -5
      ELSE 0

\* C21: the ranking score of a level is min(2 * average semantic score, 40)
\* plus the count band, the span band, min(3 * distinct content types, 15)
\* and 5 if more than 70% of the titles are title case; it is not clamped
\* and lies between -15 and 100.
C21_RankingScore ==
  optimal_levels # <<>> =>
    LET n == ranked_stats.count
        types == Cardinality(DOMAIN ranked_stats.content_types)
    IN  /\ ranked_score.den = n
        /\ ranked_score.num =
               (IF 2 * ranked_stats.semantic_sum <= 40 * n
                  THEN 2 * ranked_stats.semantic_sum ELSE 40 * n)
             + n * count_points
             + n * span_points
             + n * (IF 3 * types <= 15 THEN 3 * types ELSE 15)
             + n * (IF 100 * ranked_stats.proper_case > 70 * n THEN 5 ELSE 0)
        /\ -15 * n <= ranked_score.num
        /\ ranked_score.num <= 100 * n
        /\ optimal_levels[1].ranked_levels[1].score = ranked_score

\* a level has been given the highest score, 100
C21_Witness ==
  /\ optimal_levels # <<>>
  /\ ranked_score.num = 100 * ranked_score.den

\* the positions in text_elements of the candidate headings
candidate_positions ==
  {k \in 1..Len(text_elements) : text_elements[k].structure_score > 3}

\* the font sizes of the candidate headings, rounded to one decimal
group_sizes ==
  {round1(text_elements[k].font_size) : k \in candidate_positions}

\* the candidate headings of one rounded font size
group_members(size) ==
  {k \in candidate_positions : round1(text_elements[k].font_size) = size}

\* the n-th smallest of the sampled font sizes
nth_smallest_size(n) ==
  CHOOSE v \in {doc_font_sizes[k] : k \in 1..Len(doc_font_sizes)} :
     /\ Cardinality({k \in 1..Len(doc_font_sizes) : doc_font_sizes[k] < v}) < n
     /\ Cardinality({k \in 1..Len(doc_font_sizes) : doc_font_sizes[k] <= v}) >= n

\* twice the median of the sampled font sizes, in hundredths of a point
twice_sampled_median ==
  LET n == Len(doc_font_sizes)
  IN  IF n % 2 = 1 THEN 2 * nth_smallest_size((n + 1) \div 2)
      ELSE nth_smallest_size(n \div 2) + nth_smallest_size(n \div 2 + 1)

\* the rounded font sizes of the heading levels
level_sizes ==
  {heading_levels[j].font_size : j \in 1..Len(heading_levels)}

\* C22: a font-size group of candidate headings (structure_score > 3, font
\* size rounded to one decimal) is a heading level if and only if it has two
\* members or more or its size exceeds the median of all sampled font sizes
\* by more than 4 points; every member of a heading level is a sampled text
\* element that scores above 3; without candidates there is no level.
C22_RetainedLevels ==
  pc = "structured" =>
    /\ level_sizes \subseteq group_sizes
    /\ \A size \in group_sizes :
          size \in level_sizes <=>
            \/ Cardinality(group_members(size)) >= 2
            \/ 20 * size > twice_sampled_median + 800
    /\ \A j \in 1..Len(heading_levels) :
          \A h \in 1..Len(heading_levels[j].headings) :
             \E k \in group_members(heading_levels[j].font_size) :
                text_elements[k] = heading_levels[j].headings[h]
    /\ candidate_positions = {} => heading_levels = <<>>

\* a heading of its own size is a level because of its size, and another
\* one of its own size is not
C22_Witness ==
  /\ pc = "structured"
  /\ \E j \in 1..Len(heading_levels) : heading_levels[j].count = 1
  /\ group_sizes \ level_sizes # {}

\* C23: the keys of heading_levels are exactly 1..K, K being the number of
\* retained levels, in descending order of font size, level 1 the largest.
C23_KeysOneToK ==
  pc = "structured" =>
    /\ {heading_levels[j].level : j \in 1..Len(heading_levels)}
         = 1..Len(heading_levels)
    /\ \A a, b \in 1..Len(heading_levels) :
          heading_levels[a].level < heading_levels[b].level =>
            heading_levels[a].font_size > heading_levels[b].font_size

\* C24: in every heading level count is the number of members, avg_score
\* the mean of their structure scores, and the members are in ascending
\* order of page and, within a page, in descending order of structure score.
C24_MembersOrdered ==
  pc = "structured" =>
    \A j \in 1..Len(heading_levels) :
       LET g == heading_levels[j]
       IN  /\ g.count = Len(g.headings)
           /\ g.count = Cardinality(group_members(g.font_size))
           /\ g.avg_score.den = g.count
           /\ g.avg_score.num =
                SumSeq([h \in 1..Len(g.headings) |-> g.headings[h].structure_score])
           /\ \A a, b \in 1..Len(g.headings) :
                 a < b =>
                   \/ g.headings[a].page < g.headings[b].page
                   \/ /\ g.headings[a].page = g.headings[b].page
                      /\ g.headings[a].structure_score >= g.headings[b].structure_score

\* C27: the heading density is the number of candidate headings divided by
\* the number of sampled pages, the pages without text included.
C27_DensityPerSampledPage ==
  pc = "structured" =>
    avg_headings_per_page[1].num * Len(pages_to_analyze)
      = Cardinality(candidate_positions) * avg_headings_per_page[1].den

\* the outline entry of the given index (counted from 0) is well-formed: it
\* has three fields or more and its level and its page are integers
well_formed_at(idx) ==
  /\ toc[idx + 1].len >= 3
  /\ toc[idx + 1].level_int
  /\ toc[idx + 1].page_int

\* C25: an outline entry that is not well-formed is dropped without raising:
\* the analysis of the outline does not fail, and no level group of
\* analyze_structure holds such an entry.
C25_MalformedDropped ==
  /\ validation # "analysis_error"
  /\ \A g \in 1..Len(level_analysis) :
        \A e \in 1..Len(level_analysis[g].entries) :
           well_formed_at(level_analysis[g].entries[e].index)

\* the positions in raw_line of the spans whose text is not empty
nonempty_spans ==
  {k \in 1..Len(raw_line) : strip(span_chars(raw_line[k].text)) # <<>>}

\* the characters of the non-empty spans of raw_line set in the font
chars_in(font_name) ==
  SumSeq([k \in 1..Len(raw_line) |->
            IF k \in nonempty_spans /\ raw_line[k].font = font_name
              THEN Len(strip(span_chars(raw_line[k].text)))
              ELSE 0])

\* the font that covers the most characters of the non-empty spans, the
\* one that occurs first in the line among several
plurality_font ==
  LET first == CHOOSE k \in nonempty_spans :
                 /\ \A j \in nonempty_spans :
                       chars_in(raw_line[j].font) <= chars_in(raw_line[k].font)
                 /\ \A j \in nonempty_spans :
                       chars_in(raw_line[j].font) = chars_in(raw_line[k].font)
                         => k <= j
  IN  raw_line[first].font

\* C26: the representative font of a line is the font that covers the most
\* characters of its non-empty spans, the first one in the line among
\* several; its font size is the mean of the sizes of these spans; a line
\* without a non-empty span produces no text element.
C26_PluralityFont ==
  pc = "extracted" =>
    IF nonempty_spans = {} THEN text_elements = <<>>
    ELSE /\ Len(text_elements) = 1
         /\ text_elements[1].font_name = plurality_font
         /\ text_elements[1].font_size.num * Cardinality(nonempty_spans) * 100
              = SumSeq([k \in 1..Len(raw_line) |->
                          IF k \in nonempty_spans THEN raw_line[k].size ELSE 0])
                * text_elements[1].font_size.den

\* the page spans the analysis made by the validation assigns to the entries
\* of the level that split_document extracts (<<>> if the outline has no
\* entry at the level)
analyzed_spans ==
  LET analysis == reports[1][1].level_analysis
      at_level == {g \in 1..Len(analysis) : analysis[g].level = level}
  IN  IF at_level = {} THEN <<>>
      ELSE analysis[CHOOSE g \in at_level : TRUE].stats.page_ranges

\* split_document has resolved the chapters of a level of a validated
\* document
chapters_resolved ==
  /\ level # 0
  /\ reports # <<>>
  /\ reports[1] # <<>>

C29_ExtractorMatchesSplitter ==
  (display_level # 0 /\ level = display_level) =>
    /\ displayed = chapters
    /\ \A k \in 1..Len(displayed) : displayed[k].page_count >= 1

\* the heading level of the given key
level_info(lvl) ==
  heading_levels[CHOOSE k \in 1..Len(heading_levels) : heading_levels[k].level = lvl]

\* C28: auto_find_optimal_level tests the levels one at a time in descending
\* order of avg_score, max_levels_to_try of them at most; it stops at the
\* first level whose validation status is VALID and returns success with
\* that level as optimal_level, no later level being tested; a failure while
\* testing a level does not end the search; success = false is returned only
\* when no tested level was VALID.
C28_StopsAtFirstValid ==
  /\ Len(tested) <= max_levels
  /\ \A a, b \in 1..Len(tested) :
        a < b => /\ tested[a].level # tested[b].level
                 /\ ~frac_less(level_info(tested[a].level).avg_score,
                               level_info(tested[b].level).avg_score)
  /\ \A k \in 1..Len(tested) :
        tested[k].status = "VALID" =>
          /\ k = Len(tested)
          /\ af_result = <<[success |-> TRUE, optimal_level |-> tested[k].level]>>
  /\ (af_result # <<>> /\ heading_levels # <<>> /\ ~af_result[1].success) =>
        /\ \A k \in 1..Len(tested) : tested[k].status # "VALID"
        /\ Len(tested) = Min2(max_levels, Len(heading_levels))
====
